---- MODULE Spec2Model ----
(***************************************************************************)
(* A model of the mtd replica (TdList), its reconciliation engine          *)
(* (SyncList::sync) and the replica operations of src/src/lib.rs.          *)
(*                                                                         *)
(* Two replicas exist: lists["client"] (created by TdList::new_client) and *)
(* lists["server"] (created by TdList::new_server).  Every public operation *)
(* of TdList and every setter of Todo / Task is one action.                *)
(***************************************************************************)
EXTENDS Integers, Sequences, FiniteSets, TLC

\* ------------------------------------------------------------------------
\* Bounds of the model
\* ------------------------------------------------------------------------
\* Number of items ever created (each gets a fresh sync_id).
MaxSid == 2
\* Last day the clock reaches (days are counted from day 0).
MaxDay == 1
\* Longest weekday list add_weekday may build.
MaxWeekdays == 1
\* Number of operations the replicas execute in one run (the change of the
\* date is not one of them).
MaxOps == 4
\* Number of connections a client makes to the server in one run.
MaxConn == 2
\* Operations the replicas execute between the connections of one run.
MaxNetOps == 2
\* The largest byte the random salt and nonce are filled with.
MaxByte == 1
\* Number of frames a listener on the network records in one run.
MaxTape == 1
\* Number of client programs that connect to one server.
MaxClients == 2
\* Clients that stop sending in the middle of an exchange.
MaxStops == 1

\* ------------------------------------------------------------------------
\* Program constants and input sets
\* ------------------------------------------------------------------------
\* chrono::Weekday has seven values; weekday w is 0 (Mon) .. 6 (Sun).
WeekLen == 7

Roles == {"client", "server"}
Clients == 1..MaxClients
\* Bodies handed to the setters, and to the constructors of new items.
Bodies == {"a", "b"}
NewBodies == {"a"}
\* Weekdays handed to new_dated / set_weekday / Task::new / add_weekday.
InWeekdays == {1}

\* A Vec built element by element: the function as a sequence value.
Vec(f) == f \o <<>>

\* Option<NaiveDate>: None is <<>>, Some(d) is <<d>>.
None == <<>>
Some(d) == <<d>>

Other(r) == IF r = "client" THEN "server" ELSE "client"

\* ------------------------------------------------------------------------
\* Dates
\* ------------------------------------------------------------------------
weekday(d) == d % WeekLen

RECURSIVE weekday_to_date(_, _)
weekday_to_date(wd, today) ==
    IF weekday(today) = wd THEN today ELSE weekday_to_date(wd, today + 1)

\* ------------------------------------------------------------------------
\* Items
\* ------------------------------------------------------------------------
IsTodo(item) == "date" \in DOMAIN item

\* Todo::new_undated
new_undated(body, sid, today) ==
    [body |-> body, date |-> today, id |-> 0, done |-> None,
     sync_id |-> sid, state |-> "Unchanged"]

\* Todo::new_dated
new_dated(body, wd, sid, today) ==
    [body |-> body, date |-> weekday_to_date(wd, today), id |-> 0, done |-> None,
     sync_id |-> sid, state |-> "Unchanged"]

\* Task::new
\* HashMap<Weekday, NaiveDate>: the set of its <<weekday, date>> entries.
EmptyMap == {}

TaskNew(body, wds, sid) ==
    [body |-> body, weekdays |-> wds, done_map |-> EmptyMap, id |-> 0,
     state |-> "Unchanged", sync_id |-> sid]

\* impl PartialEq for Todo / Task
TodoEq(a, b) == a.body = b.body /\ a.date = b.date /\ a.done = b.done

TaskEq(a, b) == a.body = b.body /\ a.weekdays = b.weekdays /\ a.done_map = b.done_map

ItemEq(a, b) == IF IsTodo(a) THEN TodoEq(a, b) ELSE TaskEq(a, b)

\* SyncItem::update_old: copies the mutable fields of self into old.
TodoUpdateOld(self, old) ==
    [old EXCEPT !.body = self.body, !.date = self.date, !.done = self.done]

TaskUpdateOld(self, old) ==
    [old EXCEPT !.body = self.body, !.weekdays = self.weekdays,
                !.done_map = self.done_map]

update_old(self, old) ==
    IF IsTodo(self) THEN TodoUpdateOld(self, old) ELSE TaskUpdateOld(self, old)

\* Todo setters
TodoSetBody(t, body) == [t EXCEPT !.body = body, !.state = "Changed"]

TodoSetWeekday(t, wd, today) ==
    [t EXCEPT !.date = weekday_to_date(wd, today), !.state = "Changed"]

set_done_wtd(t, done, today) ==
    [t EXCEPT !.done = IF done THEN Some(today) ELSE None, !.state = "Changed"]

\* can_remove_wtd with a fault: removable on the day of completion.
can_remove_wtd_SameDay(t, today) == t.done # None /\ today >= t.done[1]

\* Todo::can_remove_wtd
can_remove_wtd(t, today) == t.done # None /\ today > t.done[1]

\* Task setters
TaskSetBody(t, body) == [t EXCEPT !.body = body, !.state = "Changed"]

TaskSetWeekdays(t, wds) == [t EXCEPT !.weekdays = wds, !.state = "Changed"]

TaskAddWeekday(t, wd) ==
    [t EXCEPT !.weekdays = Append(@, wd), !.state = "Changed"]

TaskRemoveWeekday(t, removed_wd) ==
    TaskSetWeekdays(t, SelectSeq(t.weekdays, LAMBDA wd : wd # removed_wd))

\* Task::set_done: inserts / removes the entry of the date's weekday.  It does
\* not touch the change marker.
MapRemove(m, k) == {e \in m : e[1] # k}
MapInsert(m, k, v) == MapRemove(m, k) \cup {<<k, v>>}
MapHas(m, k) == \E e \in m : e[1] = k
MapGet(m, k) == (CHOOSE e \in m : e[1] = k)[2]

TaskSetDone(t, done, date) ==
    [t EXCEPT !.done_map = IF done THEN MapInsert(@, weekday(date), date)
                                   ELSE MapRemove(@, weekday(date))]

\* ------------------------------------------------------------------------
\* SyncList<T>: [items |-> sequence of items, server |-> BOOLEAN]
\* ------------------------------------------------------------------------
SyncListNew(server) == [items |-> <<>>, server |-> server]

\* SyncList::add
SyncListAdd(l, item) ==
    [l EXCEPT !.items = Append(@, [item EXCEPT !.state = "New"])]

\* items.retain(|item| item.state() != ItemState::Removed)
RetainLive(items) == SelectSeq(items, LAMBDA it : it.state # "Removed")

\* SyncList::map_indices_to_ids
map_indices_to_ids(items) ==
    Vec([i \in 1..Len(items) |-> [items[i] EXCEPT !.id = i - 1]])

\* mark_removed with a fault: the server keeps the marked item as well.
mark_removed_Keep(l, id) ==
    IF id >= Len(l.items)
    THEN [ok |-> FALSE, list |-> l]
    ELSE IF l.items[id + 1].state = "Removed"
    THEN [ok |-> FALSE, list |-> l]
    ELSE [ok |-> TRUE, list |-> [l EXCEPT !.items[id + 1].state = "Removed"]]

\* mark_removed with a fault: an item already marked Removed is removed again.
mark_removed_Again(l, id) ==
    IF id >= Len(l.items)
    THEN [ok |-> FALSE, list |-> l]
    ELSE LET marked == [l.items EXCEPT ![id + 1].state = "Removed"]
         IN  [ok |-> TRUE,
              list |-> [l EXCEPT !.items =
                           IF l.server THEN map_indices_to_ids(RetainLive(marked))
                                       ELSE marked]]

\* SyncList::mark_removed: [ok |-> is the result Ok(()), list |-> the list after]
mark_removed(l, id) ==
    IF id >= Len(l.items)
    THEN [ok |-> FALSE, list |-> l]
    ELSE IF l.items[id + 1].state = "Removed"
    THEN [ok |-> FALSE, list |-> l]
    ELSE LET marked == [l.items EXCEPT ![id + 1].state = "Removed"]
         IN  [ok |-> TRUE,
              list |-> [l EXCEPT !.items =
                           IF l.server THEN map_indices_to_ids(RetainLive(marked))
                                       ELSE marked]]

\* SyncList::items: the items that are not marked Removed.
LiveItems(l) == RetainLive(l.items)

\* SyncList::get_item_mut: the 1-based position addressed by id, 0 for None.
get_item_mut(l, id) == IF id < Len(l.items) THEN id + 1 ELSE 0

\* SyncList::sync_self
ResetStates(items) ==
    Vec([i \in 1..Len(items) |-> [items[i] EXCEPT !.state = "Unchanged"]])

\* sync_self with a fault: the items marked Removed are not dropped.
sync_self_NoSweep(l) ==
    [l EXCEPT !.items = ResetStates(map_indices_to_ids(l.items))]

\* sync_self with a fault: the ids are assigned before the items marked
\* Removed are dropped.
sync_self_NumberFirst(l) ==
    [l EXCEPT !.items = ResetStates(RetainLive(map_indices_to_ids(l.items)))]

\* sync_self with a fault: the markers of the items are left as they are.
sync_self_NoReset(l) ==
    [l EXCEPT !.items = map_indices_to_ids(RetainLive(l.items))]

sync_self(l) ==
    [l EXCEPT !.items = ResetStates(map_indices_to_ids(RetainLive(l.items)))]

\* SyncList::get_item_by_sync_id: the 1-based position of the first item with
\* the sync_id, 0 for None.
RECURSIVE FirstWithSyncId(_, _, _)
FirstWithSyncId(items, sync_id, i) ==
    IF i > Len(items) THEN 0
    ELSE IF items[i].sync_id = sync_id THEN i
    ELSE FirstWithSyncId(items, sync_id, i + 1)

get_item_by_sync_id(items, sync_id) == FirstWithSyncId(items, sync_id, 1)

\* The four match arms of the loop over client_list.items in SyncList::sync.
\* st = [c |-> client_list.items, s |-> server_list.items], i the position of
\* the client item.
\* The New arm with a fault: the item is not handed to the server.
ArmNew_Skip(st, i) == st

ArmNew(st, i) ==
    [st EXCEPT !.s = Append(@, [st.c[i] EXCEPT !.state = "New"])]

\* The Removed arm with a fault: an item edited on the server is kept.
ArmRemoved_UnlessEdited(st, i) ==
    LET j == get_item_by_sync_id(st.s, st.c[i].sync_id)
    IN  IF j # 0 /\ st.s[j].state # "Changed"
        THEN [st EXCEPT !.s[j].state = "Removed"]
        ELSE st

\* The Removed arm with a fault: the server's item is left alone.
ArmRemoved_Skip(st, i) == st

ArmRemoved(st, i) ==
    LET j == get_item_by_sync_id(st.s, st.c[i].sync_id)
    IN  IF j # 0 THEN [st EXCEPT !.s[j].state = "Removed"] ELSE st

\* The Unchanged arm with a fault: a modified server item does not update the
\* client's item.
ArmUnchanged_Keep(st, i) ==
    IF get_item_by_sync_id(st.s, st.c[i].sync_id) # 0
    THEN st
    ELSE [st EXCEPT !.c[i].state = "Removed"]

ArmUnchanged(st, i) ==
    LET j == get_item_by_sync_id(st.s, st.c[i].sync_id)
    IN  IF j # 0
        THEN IF ~ItemEq(st.s[j], st.c[i])
             THEN [st EXCEPT !.c[i] = update_old(st.s[j], @)]
             ELSE st
        ELSE [st EXCEPT !.c[i].state = "Removed"]

\* The Changed arm with a fault: an item the server does not hold is not
\* added to the server list.
ArmChanged_NoAdd(st, i) ==
    LET j == get_item_by_sync_id(st.s, st.c[i].sync_id)
    IN  IF j # 0
        THEN [st EXCEPT !.s[j] = update_old(st.c[i], @)]
        ELSE st

\* The Changed arm with a fault: the server's item overwrites the client's.
ArmChanged_ServerWins(st, i) ==
    LET j == get_item_by_sync_id(st.s, st.c[i].sync_id)
    IN  IF j # 0
        THEN [st EXCEPT !.c[i] = update_old(st.s[j], @)]
        ELSE [st EXCEPT !.s = Append(@, [st.c[i] EXCEPT !.state = "New"])]

\* The Changed arm with a fault: the server's item is not updated.
ArmChanged_Skip(st, i) ==
    IF get_item_by_sync_id(st.s, st.c[i].sync_id) # 0
    THEN st
    ELSE [st EXCEPT !.s = Append(@, [st.c[i] EXCEPT !.state = "New"])]

ArmChanged(st, i) ==
    LET j == get_item_by_sync_id(st.s, st.c[i].sync_id)
    IN  IF j # 0
        THEN [st EXCEPT !.s[j] = update_old(st.c[i], @)]
        ELSE [st EXCEPT !.s = Append(@, [st.c[i] EXCEPT !.state = "New"])]

ClientArm(st, i) ==
    CASE st.c[i].state = "New"       -> ArmNew(st, i)
      [] st.c[i].state = "Removed"   -> ArmRemoved(st, i)
      [] st.c[i].state = "Unchanged" -> ArmUnchanged(st, i)
      [] st.c[i].state = "Changed"   -> ArmChanged(st, i)

RECURSIVE ClientLoop(_, _)
ClientLoop(st, i) ==
    IF i > Len(st.c) THEN st ELSE ClientLoop(ClientArm(st, i), i + 1)

\* The loop over server_list.items: a live server item without a counterpart
\* in the client list is added to the client list.
\* The loop over the server's items with a fault: nothing is added to the
\* client list.
ServerArm_Skip(st, i) == st

\* The loop over the server's items with a fault: a live server item is added
\* to the client list whether the client holds it or not.
ServerArm_NoLookup(st, i) ==
    IF st.s[i].state # "Removed"
    THEN [st EXCEPT !.c = Append(@, [st.s[i] EXCEPT !.state = "New"])]
    ELSE st

ServerArm(st, i) ==
    IF st.s[i].state # "Removed" /\ get_item_by_sync_id(st.c, st.s[i].sync_id) = 0
    THEN [st EXCEPT !.c = Append(@, [st.s[i] EXCEPT !.state = "New"])]
    ELSE st

RECURSIVE ServerLoop(_, _)
ServerLoop(st, i) ==
    IF i > Len(st.s) THEN st ELSE ServerLoop(ServerArm(st, i), i + 1)

\* SyncList::sync with a fault: the roles are not compared; a list that is not
\* a server is taken for the client list.
SyncListSync_NoRoleCheck(self, other) ==
    LET server_list == IF self.server THEN self ELSE other
        client_list == IF self.server THEN other ELSE self
        st2 == ServerLoop(ClientLoop([c |-> client_list.items,
                                      s |-> server_list.items], 1), 1)
        cl  == sync_self([client_list EXCEPT !.items = st2.c])
        sl  == sync_self([server_list EXCEPT !.items = st2.s])
    IN  [panic |-> FALSE,
         self  |-> IF self.server THEN sl ELSE cl,
         other |-> IF self.server THEN cl ELSE sl]

\* SyncList::sync with a fault: the list the method is called on is taken for
\* the client list.
SyncListSync_SelfIsClient(self, other) ==
    IF (self.server /\ other.server) \/ (~self.server /\ ~other.server)
    THEN [panic |-> TRUE, self |-> self, other |-> other]
    ELSE LET st0 == [c |-> self.items, s |-> other.items]
             st1 == ClientLoop(st0, 1)
             st2 == ServerLoop(st1, 1)
         IN  [panic |-> FALSE,
              self  |-> sync_self([self EXCEPT !.items = st2.c]),
              other |-> sync_self([other EXCEPT !.items = st2.s])]

\* SyncList::sync: [panic, self, other]
SyncListSync(self, other) ==
    IF (self.server /\ other.server) \/ (~self.server /\ ~other.server)
    THEN [panic |-> TRUE, self |-> self, other |-> other]
    ELSE LET server_list == IF self.server THEN self ELSE other
             client_list == IF self.server THEN other ELSE self
             st0 == [c |-> client_list.items, s |-> server_list.items]
             st1 == ClientLoop(st0, 1)
             st2 == ServerLoop(st1, 1)
             cl  == sync_self([client_list EXCEPT !.items = st2.c])
             sl  == sync_self([server_list EXCEPT !.items = st2.s])
         IN  [panic |-> FALSE,
              self  |-> IF self.server THEN sl ELSE cl,
              other |-> IF self.server THEN cl ELSE sl]

\* ------------------------------------------------------------------------
\* TdList: [todos |-> SyncList, tasks |-> SyncList, server |-> BOOLEAN]
\* ------------------------------------------------------------------------
new_client == [todos |-> SyncListNew(FALSE), tasks |-> SyncListNew(FALSE),
               server |-> FALSE]

new_server == [todos |-> SyncListNew(TRUE), tasks |-> SyncListNew(TRUE),
               server |-> TRUE]

\* TdList::todos / TdList::tasks
todos(td) == LiveItems(td.todos)
tasks(td) == LiveItems(td.tasks)

\* TdList::add_todo / add_task
add_todo(td, todo) ==
    [td EXCEPT !.todos = SyncListAdd(@, [todo EXCEPT !.id = Len(td.todos.items)])]

add_task(td, task) ==
    [td EXCEPT !.tasks = SyncListAdd(@, [task EXCEPT !.id = Len(td.tasks.items)])]

\* TdList::remove_todo / remove_task: [ok, td]
remove_todo(td, id) ==
    LET r == mark_removed(td.todos, id)
    IN  [ok |-> r.ok, td |-> [td EXCEPT !.todos = r.list]]

remove_task(td, id) ==
    LET r == mark_removed(td.tasks, id)
    IN  [ok |-> r.ok, td |-> [td EXCEPT !.tasks = r.list]]

\* TdList::remove_old_todos_wtd
MarkOld(items, today) ==
    Vec([i \in 1..Len(items) |->
            IF can_remove_wtd(items[i], today)
            THEN [items[i] EXCEPT !.state = "Removed"]
            ELSE items[i]])

remove_old_todos_wtd(td, today) ==
    LET marked == MarkOld(td.todos.items, today)
    IN  [td EXCEPT !.todos.items = IF td.server THEN RetainLive(marked) ELSE marked]

\* TdList::self_sync
self_sync(td, today) ==
    LET t == remove_old_todos_wtd(td, today)
    IN  [t EXCEPT !.todos = sync_self(@), !.tasks = sync_self(@)]

\* TdList::sync: [panic, self, other].  A panic of self.todos.sync leaves both
\* lists as remove_old_todos left them.
TdListSync(self, other, today) ==
    LET a  == remove_old_todos_wtd(self, today)
        b  == remove_old_todos_wtd(other, today)
        r1 == SyncListSync(a.todos, b.todos)
        r2 == SyncListSync(a.tasks, b.tasks)
    IN  IF r1.panic
        THEN [panic |-> TRUE, self |-> a, other |-> b]
        ELSE IF r2.panic
        THEN [panic |-> TRUE,
              self  |-> [a EXCEPT !.todos = r1.self],
              other |-> [b EXCEPT !.todos = r1.other]]
        ELSE [panic |-> FALSE,
              self  |-> [a EXCEPT !.todos = r1.self, !.tasks = r2.self],
              other |-> [b EXCEPT !.todos = r1.other, !.tasks = r2.other]]

\* ------------------------------------------------------------------------
\* JSON documents (TdList::to_json / TdList::new_from_json)
\* ------------------------------------------------------------------------
\* A JSON object is the sequence of its <<key, value>> members in the order
\* serde writes them (the declaration order of the struct's fields); it is read
\* back by key.  Option<NaiveDate> is written as null or as the date, the done
\* map as the set of its members.
JGet(obj, key) == obj[CHOOSE n \in 1..Len(obj) : obj[n][1] = key][2]

OptToJson(o) == IF o = None THEN <<"null">> ELSE <<"date", o[1]>>
\* Deserialisation of Option<NaiveDate> with a fault: every value is read as
\* None.
OptFromJson_Null(j) == None
OptFromJson(j) == IF j[1] = "null" THEN None ELSE Some(j[2])

MapToJson(m) == {<< <<"weekday", e[1]>>, <<"date", e[2]>> >> : e \in m}
MapFromJson(j) == {<<e[1][2], e[2][2]>> : e \in j}

TodoToJson(t) ==
    << <<"body", t.body>>, <<"date", t.date>>, <<"id", t.id>>,
       <<"done", OptToJson(t.done)>>, <<"sync_id", t.sync_id>>,
       <<"state", t.state>> >>

TodoFromJson(j) ==
    [body |-> JGet(j, "body"), date |-> JGet(j, "date"), id |-> JGet(j, "id"),
     done |-> OptFromJson(JGet(j, "done")), sync_id |-> JGet(j, "sync_id"),
     state |-> JGet(j, "state")]

TaskToJson(t) ==
    << <<"body", t.body>>, <<"weekdays", t.weekdays>>,
       <<"done_map", MapToJson(t.done_map)>>, <<"id", t.id>>,
       <<"state", t.state>>, <<"sync_id", t.sync_id>> >>

TaskFromJson(j) ==
    [body |-> JGet(j, "body"), weekdays |-> JGet(j, "weekdays"),
     done_map |-> MapFromJson(JGet(j, "done_map")), id |-> JGet(j, "id"),
     state |-> JGet(j, "state"), sync_id |-> JGet(j, "sync_id")]

to_json(td) ==
    << <<"todos", << <<"items", Vec([i \in 1..Len(td.todos.items) |->
                                        TodoToJson(td.todos.items[i])])>>,
                     <<"server", td.todos.server>> >> >>,
       <<"tasks", << <<"items", Vec([i \in 1..Len(td.tasks.items) |->
                                        TaskToJson(td.tasks.items[i])])>>,
                     <<"server", td.tasks.server>> >> >>,
       <<"server", td.server>> >>

TodosFromJson(j) ==
    [items  |-> Vec([i \in 1..Len(JGet(j, "items")) |->
                        TodoFromJson(JGet(j, "items")[i])]),
     server |-> JGet(j, "server")]

TasksFromJson(j) ==
    [items  |-> Vec([i \in 1..Len(JGet(j, "items")) |->
                        TaskFromJson(JGet(j, "items")[i])]),
     server |-> JGet(j, "server")]

new_from_json(j) ==
    [todos  |-> TodosFromJson(JGet(j, "todos")),
     tasks  |-> TasksFromJson(JGet(j, "tasks")),
     server |-> JGet(j, "server")]

\* ------------------------------------------------------------------------
\* crypt: encrypt / decrypt (src/src/network.rs)
\* ------------------------------------------------------------------------
\* A ciphertext is a sequence of bytes; the output of the AEAD cipher (the
\* encrypted message and its tag) is the one element of a sealed box that can
\* be opened with its key and nonce only.  A byte of the box that was altered
\* leaves a box that is not intact.
\* key_salt: [u8; 16], nonce_bits: [u8; 12]
SaltLen == 16
NonceLen == 12

\* The random key_salt / nonce_bits all of whose bytes are b.
SaltOf(b) == Vec([i \in 1..SaltLen |-> b])
NonceOf(b) == Vec([i \in 1..NonceLen |-> b])

\* Argon2::hash_password_into(passwd, salt, ..): the key of a password and a
\* salt; different passwords or salts give different keys.
Argon2(passwd, salt) == <<passwd, salt>>

\* Aes256Gcm::encrypt(nonce, msg) under key
AeadEncrypt(key, nonce, msg) ==
    << [key |-> key, nonce |-> nonce, msg |-> msg, intact |-> TRUE] >>

\* Aes256Gcm::decrypt(nonce, sealed) under key: [ok, msg]
AeadDecrypt(key, nonce, sealed) ==
    IF /\ Len(sealed) = 1
       /\ sealed[1].intact
       /\ sealed[1].key = key
       /\ sealed[1].nonce = nonce
    THEN [ok |-> TRUE, msg |-> sealed[1].msg]
    ELSE [ok |-> FALSE, msg |-> <<>>]

\* encrypt with a fault: the nonce written to the result is not the one the
\* cipher was run with.
encrypt_OtherNonce(msg, passwd, key_salt, nonce_bits) ==
    key_salt \o nonce_bits \o AeadEncrypt(Argon2(passwd, key_salt), <<>>, msg)

\* crypt::encrypt with the random draws key_salt and nonce_bits
encrypt(msg, passwd, key_salt, nonce_bits) ==
    key_salt \o nonce_bits \o AeadEncrypt(Argon2(passwd, key_salt), nonce_bits, msg)

\* The ends of the slices &ciphertext[0..16] and &ciphertext[16..28].
SaltEnd == 16
NonceEnd == 28

\* crypt::decrypt: [panic, ok, msg].  Slicing a ciphertext shorter than the
\* slice's end panics; a failure of the cipher is Err(DecryptingFailed).
decrypt(ciphertext, passwd) ==
    IF Len(ciphertext) < SaltEnd \/ Len(ciphertext) < NonceEnd
    THEN [panic |-> TRUE, ok |-> FALSE, msg |-> <<>>]
    ELSE LET key_salt   == SubSeq(ciphertext, 1, SaltEnd)
             nonce_bits == SubSeq(ciphertext, SaltEnd + 1, NonceEnd)
             res == AeadDecrypt(Argon2(passwd, key_salt), nonce_bits,
                                SubSeq(ciphertext, NonceEnd + 1, Len(ciphertext)))
         IN  [panic |-> FALSE, ok |-> res.ok, msg |-> res.msg]

\* ------------------------------------------------------------------------
\* MtdNetMgr: messages (src/src/network.rs)
\* ------------------------------------------------------------------------
\* A message is a sequence of parts: its first part stands for its first 8
\* bytes (a session id, or the client's random data), every further part for
\* a run of the bytes that follow.  A part is a word (8 random bytes), a text
\* or a JSON document.
Word(n) == [kind |-> "word", val |-> n]
Text(t) == [kind |-> "text", val |-> t]
Json(doc) == [kind |-> "json", val |-> doc]

\* Equality of the bytes of two parts / of two messages.
SamePart(a, b) == a.kind = b.kind /\ a.val = b.val
SameBytes(m, n) ==
    Len(m) = Len(n) /\ \A i \in 1..Len(m) : SamePart(m[i], n[i])

\* Config.encryption_password of the client and of the server.
Passwd == "hunter42"

\* MtdNetMgr::write_encrypted: the frame put on the stream.
write_encrypted(content) == encrypt(content, Passwd, SaltOf(1), NonceOf(1))

\* MtdNetMgr::read_decrypted of a frame: [panic, ok, msg]
read_decrypted(frame) == decrypt(frame, Passwd)

\* check_sid with a fault: the first 8 bytes are not compared.
check_sid_LengthOnly(correct_sid, msg_with_sid) ==
    IF Len(msg_with_sid) >= 1
    THEN [ok |-> TRUE, msg |-> Tail(msg_with_sid)]
    ELSE [ok |-> FALSE, msg |-> <<>>]

\* MtdNetMgr::check_sid: [ok, msg]
check_sid(correct_sid, msg_with_sid) ==
    IF Len(msg_with_sid) >= 1 /\ SamePart(msg_with_sid[1], correct_sid)
    THEN [ok |-> TRUE, msg |-> Tail(msg_with_sid)]
    ELSE [ok |-> FALSE, msg |-> <<>>]

\* MtdNetMgr::read_check_decrypted: [panic, err, msg]; err is "" for Ok.
read_check_decrypted(frame, correct_sid) ==
    LET d == read_decrypted(frame)
        c == check_sid(correct_sid, d.msg)
    IN  IF d.panic THEN [panic |-> TRUE, err |-> "", msg |-> <<>>]
        ELSE IF ~d.ok THEN [panic |-> FALSE, err |-> "DecryptingFailed", msg |-> <<>>]
        ELSE IF ~c.ok THEN [panic |-> FALSE, err |-> "AuthFailed", msg |-> <<>>]
        ELSE [panic |-> FALSE, err |-> "", msg |-> c.msg]

\* serde_json succeeds on the bytes of a serialized TdList only.
IsTdListJson(msg) == Len(msg) = 1 /\ msg[1].kind = "json"

\* ------------------------------------------------------------------------
\* Several clients and the server's listening loop
\* ------------------------------------------------------------------------
\* The MtdNetMgr of every client (cpc, list, cpre, chal, csid), the stream of
\* its connection (c2s, s2c), the connections the listener has queued and not
\* yet handed to the loop (queue), the handle_stream call running for a
\* client's connection (spc, ssid), what client_sync and handle_stream
\* returned (cres, sres), the number of connections made and
\* accepted, and the lists the clients held at the start of the exchanges
\* whose synced list the server stored, in the order it stored them (log).
MultiInit ==
    [cpc   |-> Vec([k \in Clients |-> "idle"]),
     list  |-> Vec([k \in Clients |-> new_client]),
     cpre  |-> Vec([k \in Clients |-> <<>>]),
     chal  |-> Vec([k \in Clients |-> Word(0)]),
     csid  |-> Vec([k \in Clients |-> Word(0)]),
     c2s   |-> Vec([k \in Clients |-> <<>>]),
     s2c   |-> Vec([k \in Clients |-> <<>>]),
     spc   |-> Vec([k \in Clients |-> "none"]),
     ssid  |-> Vec([k \in Clients |-> Word(0)]),
     cres  |-> Vec([k \in Clients |-> "none"]),
     sres  |-> Vec([k \in Clients |-> "none"]),
     queue |-> <<>>, nconn |-> 0, nacc |-> 0, log |-> <<>>]

\* The client_sync call (cpc, cres, chal, csid, cpre, merged), the server's
\* listening loop (spc, sres, ssid) and the two directions of the TcpStream
\* (c2s, s2c: <<>> or <<the frame in flight>>).  stored: the server has replaced
\* its list on this connection; lost: the sync_ids of the todos the client had
\* added before the last call that failed after its merge while the server
\* stored nothing; tape: the frames a listener on the network has recorded;
\* multi: the clients and the listening loop of the section above.
NetInit ==
    [cpc |-> "idle", cres |-> "none", chal |-> Word(0), csid |-> Word(0),
     cpre |-> <<>>, merged |-> <<>>,
     spc |-> "accept", sres |-> "none", ssid |-> Word(0),
     c2s |-> <<>>, s2c |-> <<>>, nconn |-> 0,
     stored |-> FALSE, lost |-> {}, tape |-> {}, multi |-> MultiInit]

\* ------------------------------------------------------------------------
\* crypt: the inputs of encrypt and decrypt
\* ------------------------------------------------------------------------
Payloads == {<<>>, <<Text("ok")>>, <<Word(1), Text("read")>>}
Passwords == {"", "hunter42", "other"}
Bytes == 0..MaxByte

\* The ways a ciphertext is altered: bytes appended, the end cut off after the
\* salt / after the nonce, a byte of the salt, of the nonce or of the
\* encrypted message changed.
Alterations == {"append", "cut_nonce", "cut_box", "salt", "nonce", "box"}

Altered(ct, how) ==
    CASE how = "append"    -> ct \o <<0>>
      [] how = "cut_nonce" -> SubSeq(ct, 1, SaltLen)
      [] how = "cut_box"   -> SubSeq(ct, 1, SaltLen + NonceLen)
      [] how = "salt"      -> <<ct[1] + 1>> \o Tail(ct)
      [] how = "nonce"     -> SubSeq(ct, 1, SaltLen) \o <<ct[SaltLen + 1] + 1>>
                                 \o SubSeq(ct, SaltLen + 2, Len(ct))
      [] how = "box"       -> [ct EXCEPT ![Len(ct)].intact = FALSE]

NoResult == [panic |-> FALSE, ok |-> FALSE, msg |-> <<>>]

CryptInit == [step |-> "init", msg |-> <<>>, passwd |-> "", ct |-> <<>>,
              altered |-> FALSE, with |-> "", res |-> NoResult]

\* ------------------------------------------------------------------------
\* State
\* ------------------------------------------------------------------------
VARIABLES
    lists,      \* lists[r]: the TdList of the client / of the server
    today,      \* Local::today()
    nextSid,    \* the sync_id random() hands to the next created item
    peer,       \* the second list of a same-role sync: <<>> or <<TdList>>
    panicked,   \* a panic! was raised
    lastOp,     \* the operation executed last
    nops,       \* number of operations executed so far
    pre,        \* <<>>, or <<the state right before the last (self-)sync>>
    net,        \* the client_sync call, the server's handler and their stream
    crypt       \* a call of crypt::encrypt and of crypt::decrypt on its output

vars == <<lists, today, nextSid, peer, panicked, lastOp, nops, pre, net, crypt>>

Op(name, r, id, ok) == [op |-> name, r |-> r, id |-> id, ok |-> ok]

Snapshot == [lists |-> lists, today |-> today, op |-> lastOp, peer |-> peer]

Init ==
    /\ lists = [client |-> new_client, server |-> new_server]
    /\ today = 0
    /\ nextSid = 1
    /\ peer = <<>>
    /\ panicked = FALSE
    /\ lastOp = Op("init", "client", 0, TRUE)
    /\ nops = 0
    /\ pre = <<>>
    /\ net = NetInit
    /\ crypt = CryptInit

\* Every operation of a replica is counted; a panic ends the program.
Running == ~panicked /\ nops < MaxOps

Did(name, r, id, ok) ==
    /\ lastOp' = Op(name, r, id, ok)
    /\ nops' = nops + 1
    /\ UNCHANGED <<net, crypt>>

\* A local operation `name` of replica r that leaves it as td.
Local(name, r, id, ok, td) ==
    /\ lists' = [lists EXCEPT ![r] = td]
    /\ Did(name, r, id, ok)
    /\ pre' = <<>>
    /\ UNCHANGED <<today, peer, panicked>>

\* The ids for which get_todo_mut / get_task_mut return Some.
TodoIds(r) == 0..(Len(lists[r].todos.items) - 1)
TaskIds(r) == 0..(Len(lists[r].tasks.items) - 1)

\* ------------------------------------------------------------------------
\* Actions: the operations of a replica
\* ------------------------------------------------------------------------
\* td.add_todo(Todo::new_undated(body))
AddTodoUndated(r, body) ==
    /\ Running /\ nextSid <= MaxSid
    /\ Local("add_todo", r, Len(lists[r].todos.items), TRUE,
             add_todo(lists[r], new_undated(body, nextSid, today)))
    /\ nextSid' = nextSid + 1

\* td.add_todo(Todo::new_dated(body, weekday))
AddTodoDated(r, body, wd) ==
    /\ Running /\ nextSid <= MaxSid
    /\ Local("add_todo", r, Len(lists[r].todos.items), TRUE,
             add_todo(lists[r], new_dated(body, wd, nextSid, today)))
    /\ nextSid' = nextSid + 1

\* td.add_task(Task::new(body, vec![weekday]))
AddTask(r, body, wd) ==
    /\ Running /\ nextSid <= MaxSid
    /\ Local("add_task", r, Len(lists[r].tasks.items), TRUE,
             add_task(lists[r], TaskNew(body, <<wd>>, nextSid)))
    /\ nextSid' = nextSid + 1

\* td.remove_todo(id) returning Ok(()).  (A call that returns the error leaves
\* the list as it is.)
RemoveTodo(r, id) ==
    /\ Running
    /\ LET res == remove_todo(lists[r], id)
       IN  res.ok /\ Local("remove_todo", r, id, res.ok, res.td)
    /\ UNCHANGED nextSid

\* td.remove_task(id) returning Ok(())
RemoveTask(r, id) ==
    /\ Running
    /\ LET res == remove_task(lists[r], id)
       IN  res.ok /\ Local("remove_task", r, id, res.ok, res.td)
    /\ UNCHANGED nextSid

\* td.get_todo_mut(id).unwrap().<setter>: the handle is Some
TodoHandle(r, id) == Running /\ get_item_mut(lists[r].todos, id) # 0
TaskHandle(r, id) == Running /\ get_item_mut(lists[r].tasks, id) # 0

SetTodo(name, r, id, t) ==
    /\ Local(name, r, id, TRUE,
             [lists[r] EXCEPT !.todos.items[get_item_mut(lists[r].todos, id)] = t])
    /\ UNCHANGED nextSid

SetTask(name, r, id, t) ==
    /\ Local(name, r, id, TRUE,
             [lists[r] EXCEPT !.tasks.items[get_item_mut(lists[r].tasks, id)] = t])
    /\ UNCHANGED nextSid

TodoAt(r, id) == lists[r].todos.items[get_item_mut(lists[r].todos, id)]
TaskAt(r, id) == lists[r].tasks.items[get_item_mut(lists[r].tasks, id)]

DoTodoSetBody(r, id, body) ==
    /\ TodoHandle(r, id)
    /\ SetTodo("todo_set_body", r, id, TodoSetBody(TodoAt(r, id), body))

DoTodoSetWeekday(r, id, wd) ==
    /\ TodoHandle(r, id)
    /\ SetTodo("todo_set_weekday", r, id, TodoSetWeekday(TodoAt(r, id), wd, today))

DoTodoSetDone(r, id, done) ==
    /\ TodoHandle(r, id)
    /\ SetTodo("todo_set_done", r, id, set_done_wtd(TodoAt(r, id), done, today))

DoTaskSetBody(r, id, body) ==
    /\ TaskHandle(r, id)
    /\ SetTask("task_set_body", r, id, TaskSetBody(TaskAt(r, id), body))

DoTaskSetWeekdays(r, id, wd) ==
    /\ TaskHandle(r, id)
    /\ SetTask("task_set_weekdays", r, id, TaskSetWeekdays(TaskAt(r, id), <<wd>>))

DoTaskAddWeekday(r, id, wd) ==
    /\ TaskHandle(r, id)
    /\ Len(TaskAt(r, id).weekdays) < MaxWeekdays
    /\ SetTask("task_add_weekday", r, id, TaskAddWeekday(TaskAt(r, id), wd))

DoTaskRemoveWeekday(r, id, wd) ==
    /\ TaskHandle(r, id)
    /\ SetTask("task_remove_weekday", r, id, TaskRemoveWeekday(TaskAt(r, id), wd))

DoTaskSetDone(r, id, done) ==
    /\ TaskHandle(r, id)
    /\ SetTask("task_set_done", r, id, TaskSetDone(TaskAt(r, id), done, today))

\* td.remove_old_todos()
RemoveOldTodos(r) ==
    /\ Running
    /\ Local("remove_old_todos", r, 0, TRUE, remove_old_todos_wtd(lists[r], today))
    /\ UNCHANGED nextSid

\* td.self_sync()
SelfSync(r) ==
    /\ Running
    /\ lists' = [lists EXCEPT ![r] = self_sync(lists[r], today)]
    /\ Did("self_sync", r, 0, TRUE)
    /\ pre' = <<>>
    /\ UNCHANGED <<today, nextSid, peer, panicked>>

\* lists[r].sync(&mut lists[Other(r)])
Sync(r) ==
    /\ Running
    /\ LET res == TdListSync(lists[r], lists[Other(r)], today)
       IN  /\ lists' = [client |-> IF r = "client" THEN res.self ELSE res.other,
                         server |-> IF r = "server" THEN res.self ELSE res.other]
           /\ panicked' = res.panic
    /\ Did("sync", "client", 0, TRUE)
    /\ pre' = <<Snapshot>>
    /\ UNCHANGED <<today, nextSid, peer>>

\* The lists a replica of role r may be synced with by mistake: an empty list
\* of the same role, one holding an item of its own, a copy of lists[r].
SameRolePeers(r) ==
    LET empty == IF r = "server" THEN new_server ELSE new_client
    IN  {empty, add_todo(empty, new_undated("b", 0, today)),
         new_from_json(to_json(lists[r]))}

\* lists[r].sync(&mut p) with p of the same role as lists[r]
SyncSameRole(r, p) ==
    /\ Running
    /\ LET res == TdListSync(lists[r], p, today)
       IN  /\ lists' = [lists EXCEPT ![r] = res.self]
           /\ peer' = <<res.other>>
           /\ panicked' = res.panic
    /\ Did("sync_same_role", r, 0, TRUE)
    /\ pre' = <<[Snapshot EXCEPT !.peer = <<p>>]>>
    /\ UNCHANGED <<today, nextSid>>

\* A successful MtdNetMgr::client_sync against the server's handle_stream:
\* the client merges with the list deserialized from the server's document,
\* the server replaces its list by the one deserialized from the client's.
NetSync ==
    /\ Running
    /\ LET received == new_from_json(to_json(lists["server"]))
           res      == TdListSync(lists["client"], received, today)
       IN  /\ lists' = [client |-> res.self,
                         server |-> new_from_json(to_json(res.other))]
           /\ panicked' = res.panic
    /\ Did("sync", "client", 0, TRUE)
    /\ pre' = <<Snapshot>>
    /\ UNCHANGED <<today, nextSid, peer>>

\* The date changes: Local::today() returns the next day from now on.
Tick ==
    /\ Running /\ today < MaxDay
    /\ today' = today + 1
    /\ lastOp' = Op("tick", "client", 0, TRUE)
    /\ pre' = <<>>
    /\ UNCHANGED <<lists, nextSid, peer, panicked, nops, net, crypt>>

\* ------------------------------------------------------------------------
\* Actions: MtdNetMgr::client_sync and MtdNetMgr::server_listening_loop
\* ------------------------------------------------------------------------
\* A step of the network code: it is no operation of a replica.
NetStep(name) ==
    /\ lastOp' = Op(name, "client", 0, TRUE)
    /\ pre' = <<>>
    /\ UNCHANGED <<today, nextSid, peer, panicked, nops, crypt>>

\* No client_sync call is running and the server waits in tcp.incoming(): the
\* MtdNetMgr owns the TdList while it runs.
NetIdle == net.cpc = "idle" /\ net.spc \in {"accept", "dead"}
LocalOp == NetIdle /\ nops < MaxNetOps

\* client_sync returns Err(err) / handle_stream returns Err(err), which the
\* loop prints / a panic ends the process.
\* Whatever the other side wrote and was not read is dropped with the stream.
ClientErr(err) == [net EXCEPT !.cpc = "idle", !.cres = err, !.s2c = <<>>]
ClientPanic == [net EXCEPT !.cpc = "dead", !.cres = "panic", !.s2c = <<>>]
ServerErr(err) == [net EXCEPT !.spc = "accept", !.sres = err, !.c2s = <<>>]
ServerPanic == [net EXCEPT !.spc = "dead", !.sres = "panic", !.c2s = <<>>]

\* Frames that do not come from client_sync / handle_stream: a frame shorter
\* than the salt and the nonce, a frame encrypted with another password, a
\* frame with bytes appended, and frames of a peer that has the password but
\* sends no session id, another session id, another command, a wrong answer
\* or bytes that are no TdList.
ShortFrame == SaltOf(0)
ForeignFrame == encrypt(<<Word(0)>>, "other", SaltOf(1), NonceOf(1))

BadFrames(sid) ==
    {ShortFrame, ForeignFrame,
     write_encrypted(<<sid, Text("read")>>) \o <<0>>,
     write_encrypted(<<>>),
     write_encrypted(<<Word(0), Text("read")>>),
     write_encrypted(<<Word(0), Word(0)>>),
     write_encrypted(<<sid, Text("write")>>),
     write_encrypted(<<sid, Text("{")>>)}

\* The frames a read of a stream may deliver: the one the peer wrote, or one
\* of the frames above.
Incoming(channel, sid) == {channel[i] : i \in 1..Len(channel)} \cup BadFrames(sid)

\* The record of the call before this one: it returned an error after its
\* merge and the server did not replace its list.
LostBefore ==
    IF net.cres \notin {"none", "Ok", "panic"} /\ net.merged # <<>> /\ ~net.stored
    THEN {net.cpre[1].todos.items[i].sync_id :
              i \in {j \in 1..Len(net.cpre[1].todos.items) :
                         net.cpre[1].todos.items[j].state = "New"}}
    ELSE net.lost

\* client_sync up to the first write: connect, send the random data.  The
\* server accepts the stream and draws its session id.
ClientConnect ==
    /\ ~panicked /\ NetIdle /\ net.nconn < MaxConn
    /\ net' = IF net.spc = "dead"
              THEN [ClientErr("IoErr") EXCEPT !.cpre = <<lists.client>>,
                                              !.merged = <<>>,
                                              !.nconn = net.nconn + 1,
                                              !.stored = FALSE,
                                              !.lost = LostBefore]
              ELSE [net EXCEPT !.cpc = "hello", !.cres = "none",
                               !.chal = Word(0 - net.nconn - 1),
                               !.cpre = <<lists.client>>, !.merged = <<>>,
                               !.spc = "hello", !.sres = "none",
                               !.ssid = Word(net.nconn + 1),
                               !.c2s = <<write_encrypted(<<Word(0 - net.nconn - 1)>>)>>,
                               !.s2c = <<>>,
                               !.nconn = net.nconn + 1,
                               !.stored = FALSE,
                               !.lost = LostBefore]
    /\ NetStep("client_connect")
    /\ UNCHANGED lists

\* client_sync with a fault: the data compared with the random data is the
\* data sent, not the data received.
auth_data_Sent(msg) == <<net.chal>>

\* client_sync: auth_data, the bytes of the response after the session id.
auth_data(msg) == Tail(msg)

\* client_sync: read the server's response, check it, send the read command.
ClientRecvHello(f) ==
    /\ net.cpc = "hello"
    /\ LET d == read_decrypted(f)
       IN  net' = IF d.panic THEN ClientPanic
                  ELSE IF ~d.ok THEN ClientErr("DecryptingFailed")
                  ELSE IF Len(d.msg) < 2 THEN ClientErr("AuthFailed")
                  ELSE IF ~SameBytes(auth_data(d.msg), <<net.chal>>)
                  THEN ClientErr("AuthFailed")
                  ELSE [net EXCEPT !.cpc = "list", !.csid = d.msg[1],
                                   !.s2c = <<>>,
                                   !.c2s = <<write_encrypted(<<d.msg[1], Text("read")>>)>>]
    /\ NetStep("client_hello")
    /\ UNCHANGED lists

\* client_sync: the list sent back is the synced list of the server,
\* server.to_json().
SentBack_Self(res) == res.self
SentBack(res) == res.other

\* client_sync: read the server's TdList, sync with it, send the synced list
\* back.
ClientRecvList(f) ==
    /\ net.cpc = "list"
    /\ LET r      == read_check_decrypted(f, net.csid)
           server == new_from_json(r.msg[1].val)
           res    == TdListSync(lists.client, server, today)
       IN  IF r.panic THEN net' = ClientPanic /\ UNCHANGED lists
           ELSE IF r.err # "" THEN net' = ClientErr(r.err) /\ UNCHANGED lists
           ELSE IF ~IsTdListJson(r.msg)
           THEN net' = ClientErr("SerdeErr") /\ UNCHANGED lists
           ELSE IF res.panic
           THEN net' = ClientPanic /\ lists' = [lists EXCEPT !.client = res.self]
           ELSE /\ lists' = [lists EXCEPT !.client = res.self]
                /\ net' = [net EXCEPT !.cpc = "ok", !.merged = <<res.other>>,
                                      !.s2c = <<>>,
                                      !.c2s = <<write_encrypted(
                                                  <<net.csid, Json(to_json(SentBack(res)))>>)>>]
    /\ NetStep("client_list")

\* client_sync: msg == b"ok".
IsOk(msg) == SameBytes(msg, <<Text("ok")>>)

\* client_sync: read the server's confirmation.
ClientRecvOk(f) ==
    /\ net.cpc = "ok"
    /\ LET r == read_check_decrypted(f, net.csid)
       IN  net' = IF r.panic THEN ClientPanic
                  ELSE IF r.err # "" THEN ClientErr(r.err)
                  ELSE IF IsOk(r.msg)
                  THEN [net EXCEPT !.cpc = "idle", !.cres = "Ok", !.s2c = <<>>]
                  ELSE ClientErr("Unknown")
    /\ NetStep("client_ok")
    /\ UNCHANGED lists

\* A read or a write of the client's stream fails (timeout, connection lost).
ClientIoErr ==
    /\ net.cpc \in {"hello", "list", "ok"}
    /\ net' = ClientErr("IoErr")
    /\ NetStep("client_io_err")
    /\ UNCHANGED lists

\* handle_stream: read the client's random data, send it back with the
\* session id.
ServerRecvHello(f) ==
    /\ net.spc = "hello"
    /\ LET d == read_decrypted(f)
       IN  net' = IF d.panic THEN ServerPanic
                  ELSE IF ~d.ok THEN ServerErr("DecryptingFailed")
                  ELSE [net EXCEPT !.spc = "cmd", !.c2s = <<>>,
                                   !.s2c = <<write_encrypted(<<net.ssid>> \o d.msg)>>]
    /\ NetStep("server_hello")
    /\ UNCHANGED lists

\* handle_stream with a fault: every command of the session is answered.
IsRead_Any(msg) == TRUE

\* handle_stream: msg == b"read".
IsRead(msg) == SameBytes(msg, <<Text("read")>>)

\* handle_stream: read the command; respond to "read" with the TdList.
ServerRecvCmd(f) ==
    /\ net.spc = "cmd"
    /\ LET r == read_check_decrypted(f, net.ssid)
       IN  net' = IF r.panic THEN ServerPanic
                  ELSE IF r.err # "" THEN ServerErr(r.err)
                  ELSE IF IsRead(r.msg)
                  THEN [net EXCEPT !.spc = "list", !.c2s = <<>>,
                                   !.s2c = <<write_encrypted(
                                               <<net.ssid, Json(to_json(lists.server))>>)>>]
                  ELSE [net EXCEPT !.spc = "accept", !.sres = "Ok", !.c2s = <<>>]
    /\ NetStep("server_cmd")
    /\ UNCHANGED lists

\* handle_stream with a fault: "ok" is sent before the list is written to the
\* save location.
ServerRecvList_OkBeforeWrite(f, saved) ==
    /\ net.spc = "list"
    /\ LET r  == read_check_decrypted(f, net.ssid)
           ok == <<write_encrypted(<<net.ssid, Text("ok")>>)>>
       IN  IF r.panic THEN net' = ServerPanic /\ UNCHANGED lists
           ELSE IF r.err # "" THEN net' = ServerErr(r.err) /\ UNCHANGED lists
           ELSE IF ~IsTdListJson(r.msg)
           THEN net' = ServerErr("SerdeErr") /\ UNCHANGED lists
           ELSE /\ lists' = [lists EXCEPT !.server = new_from_json(r.msg[1].val)]
                /\ net' = IF saved
                          THEN [net EXCEPT !.spc = "accept", !.sres = "Ok",
                                           !.c2s = <<>>, !.stored = TRUE,
                                           !.s2c = ok]
                          ELSE [ServerErr("IoErr") EXCEPT !.stored = TRUE,
                                                          !.s2c = ok]
    /\ NetStep("server_list")

\* handle_stream: read the synced TdList, replace self.td_list by it, write
\* it to the save location (saved: fs::write returned Ok), send "ok".
ServerRecvList(f, saved) ==
    /\ net.spc = "list"
    /\ LET r == read_check_decrypted(f, net.ssid)
       IN  IF r.panic THEN net' = ServerPanic /\ UNCHANGED lists
           ELSE IF r.err # "" THEN net' = ServerErr(r.err) /\ UNCHANGED lists
           ELSE IF ~IsTdListJson(r.msg)
           THEN net' = ServerErr("SerdeErr") /\ UNCHANGED lists
           ELSE /\ lists' = [lists EXCEPT !.server = new_from_json(r.msg[1].val)]
                /\ net' = IF saved
                          THEN [net EXCEPT !.spc = "accept", !.sres = "Ok",
                                           !.c2s = <<>>, !.stored = TRUE,
                                           !.s2c = <<write_encrypted(
                                                       <<net.ssid, Text("ok")>>)>>]
                          ELSE [ServerErr("IoErr") EXCEPT !.stored = TRUE]
    /\ NetStep("server_list")

\* MtdApp::run after client_sync returned Err: the program ends without
\* writing the list, and its next run reads the list saved before the call.
ClientReload ==
    /\ net.cpc = "idle" /\ net.cres \notin {"none", "Ok", "panic"}
    /\ lists.client # net.cpre[1]
    /\ lists' = [lists EXCEPT !.client = new_from_json(to_json(net.cpre[1]))]
    /\ UNCHANGED net
    /\ NetStep("client_reload")

\* A read or a write of the server's stream fails (timeout, connection lost).
ServerIoErr ==
    /\ net.spc \in {"hello", "cmd", "list"}
    /\ net' = ServerErr("IoErr")
    /\ NetStep("server_io_err")
    /\ UNCHANGED lists

Next ==
    \/ \E r \in Roles, body \in NewBodies : AddTodoUndated(r, body)
    \/ \E r \in Roles, body \in NewBodies, wd \in InWeekdays : AddTodoDated(r, body, wd)
    \/ \E r \in Roles, body \in NewBodies, wd \in InWeekdays : AddTask(r, body, wd)
    \/ \E r \in Roles : \E id \in TodoIds(r) : RemoveTodo(r, id)
    \/ \E r \in Roles : \E id \in TaskIds(r) : RemoveTask(r, id)
    \/ \E r \in Roles, body \in Bodies : \E id \in TodoIds(r) : DoTodoSetBody(r, id, body)
    \/ \E r \in Roles, wd \in InWeekdays : \E id \in TodoIds(r) : DoTodoSetWeekday(r, id, wd)
    \/ \E r \in Roles, done \in BOOLEAN : \E id \in TodoIds(r) : DoTodoSetDone(r, id, done)
    \/ \E r \in Roles, body \in Bodies : \E id \in TaskIds(r) : DoTaskSetBody(r, id, body)
    \/ \E r \in Roles, wd \in InWeekdays : \E id \in TaskIds(r) : DoTaskSetWeekdays(r, id, wd)
    \/ \E r \in Roles, wd \in InWeekdays : \E id \in TaskIds(r) : DoTaskAddWeekday(r, id, wd)
    \/ \E r \in Roles, wd \in InWeekdays : \E id \in TaskIds(r) : DoTaskRemoveWeekday(r, id, wd)
    \/ \E r \in Roles, done \in BOOLEAN : \E id \in TaskIds(r) : DoTaskSetDone(r, id, done)
    \/ \E r \in Roles : RemoveOldTodos(r)
    \/ \E r \in Roles : SelfSync(r)
    \/ \E r \in Roles : Sync(r)
    \/ NetSync
    \/ Tick

Spec == Init /\ [][Next]_vars

\* The operations that lead to a sync of two lists of the same role.
NextSameRole ==
    \/ \E r \in Roles, body \in NewBodies : AddTodoUndated(r, body)
    \/ \E r \in Roles, body \in NewBodies, wd \in InWeekdays : AddTask(r, body, wd)
    \/ \E r \in Roles, done \in BOOLEAN : \E id \in TodoIds(r) : DoTodoSetDone(r, id, done)
    \/ \E r \in Roles : Sync(r)
    \/ \E r \in Roles : \E p \in SameRolePeers(r) : SyncSameRole(r, p)
    \/ Tick

SpecSameRole == Init /\ [][NextSameRole]_vars

\* td.remove_todo(id) / td.remove_task(id) with any id, whatever the result:
\* pre[1] is the state before the call.
TryRemoveTodo(r, id) ==
    /\ Running
    /\ LET res == remove_todo(lists[r], id)
       IN  /\ lists' = [lists EXCEPT ![r] = res.td]
           /\ Did("remove_todo", r, id, res.ok)
    /\ pre' = <<Snapshot>>
    /\ UNCHANGED <<today, nextSid, peer, panicked>>

TryRemoveTask(r, id) ==
    /\ Running
    /\ LET res == remove_task(lists[r], id)
       IN  /\ lists' = [lists EXCEPT ![r] = res.td]
           /\ Did("remove_task", r, id, res.ok)
    /\ pre' = <<Snapshot>>
    /\ UNCHANGED <<today, nextSid, peer, panicked>>

\* The ids a caller may pass: those of the stored items and the one after.
AnyTodoIds(r) == 0..Len(lists[r].todos.items)
AnyTaskIds(r) == 0..Len(lists[r].tasks.items)

\* Adding and removing items, with removals that fail.
NextRemove ==
    \/ \E r \in Roles, body \in NewBodies : AddTodoUndated(r, body)
    \/ \E r \in Roles, body \in NewBodies, wd \in InWeekdays : AddTask(r, body, wd)
    \/ \E r \in Roles : \E id \in AnyTodoIds(r) : TryRemoveTodo(r, id)
    \/ \E r \in Roles : \E id \in AnyTaskIds(r) : TryRemoveTask(r, id)

SpecRemove == Init /\ [][NextRemove]_vars

\* td.remove_old_todos(); pre[1] is the state before the call.
RemoveOldTodosAt(r) ==
    /\ Running
    /\ lists' = [lists EXCEPT ![r] = remove_old_todos_wtd(lists[r], today)]
    /\ Did("remove_old_todos", r, 0, TRUE)
    /\ pre' = <<Snapshot>>
    /\ UNCHANGED <<today, nextSid, peer, panicked>>

\* Todos that are completed, reopened and removed while the days pass, and
\* the removal of the old ones.
NextOld ==
    \/ \E r \in Roles, body \in NewBodies, wd \in InWeekdays : AddTodoDated(r, body, wd)
    \/ \E r \in Roles : \E id \in TodoIds(r) : RemoveTodo(r, id)
    \/ \E r \in Roles, done \in BOOLEAN : \E id \in TodoIds(r) : DoTodoSetDone(r, id, done)
    \/ \E r \in Roles : RemoveOldTodosAt(r)
    \/ Tick

SpecOld == Init /\ [][NextOld]_vars

\* td.self_sync(); pre[1] is the state before the call.
SelfSyncAt(r) ==
    /\ Running
    /\ lists' = [lists EXCEPT ![r] = self_sync(lists[r], today)]
    /\ Did("self_sync", r, 0, TRUE)
    /\ pre' = <<Snapshot>>
    /\ UNCHANGED <<today, nextSid, peer, panicked>>

\* client.sync(&mut server) right after client.self_sync(); pre[1] stays the
\* state before the self_sync.
SyncAfterSelfSync ==
    /\ Running
    /\ lastOp.op = "self_sync" /\ lastOp.r = "client" /\ pre # <<>>
    /\ LET res == TdListSync(lists.client, lists.server, today)
       IN  /\ lists' = [client |-> res.self, server |-> res.other]
           /\ panicked' = res.panic
    /\ Did("self_sync_sync", "client", 0, TRUE)
    /\ UNCHANGED <<today, nextSid, peer, pre>>

\* The operations of one replica between its self_sync calls.
NextSelf ==
    \/ \E r \in Roles, body \in NewBodies, wd \in InWeekdays : AddTodoDated(r, body, wd)
    \/ \E r \in Roles, body \in NewBodies, wd \in InWeekdays : AddTask(r, body, wd)
    \/ \E r \in Roles : \E id \in TodoIds(r) : RemoveTodo(r, id)
    \/ \E r \in Roles : \E id \in TaskIds(r) : RemoveTask(r, id)
    \/ \E r \in Roles, done \in BOOLEAN : \E id \in TodoIds(r) : DoTodoSetDone(r, id, done)
    \/ \E r \in Roles : SelfSyncAt(r)
    \/ SyncAfterSelfSync
    \/ Tick

SpecSelf == Init /\ [][NextSelf]_vars

\* The replicas after a first sync: the client added a todo or a task and
\* synced with the new server.
SyncedOnce ==
    {LET res == TdListSync(c, new_server, 0)
     IN  [client |-> res.self, server |-> res.other] :
        c \in {add_todo(new_client, new_undated(body, 1, 0)) : body \in NewBodies}
              \cup {add_task(new_client, TaskNew(body, <<wd>>, 1)) :
                        body \in NewBodies, wd \in InWeekdays}}

InitSynced ==
    /\ lists \in SyncedOnce
    /\ today = 0
    /\ nextSid = 2
    /\ peer = <<>>
    /\ panicked = FALSE
    /\ lastOp = Op("init", "client", 0, TRUE)
    /\ nops = 0
    /\ pre = <<>>
    /\ net = NetInit
    /\ crypt = CryptInit

\* lists[r].sync(&mut lists[Other(r)]) called again right after a sync, on the
\* same day; pre[1] is the state the second call started from.
SyncAgain(r) ==
    /\ ~panicked /\ lastOp.op = "sync"
    /\ LET res == TdListSync(lists[r], lists[Other(r)], today)
       IN  /\ lists' = [client |-> IF r = "client" THEN res.self ELSE res.other,
                         server |-> IF r = "server" THEN res.self ELSE res.other]
           /\ panicked' = res.panic
    /\ Did("sync_again", "client", 0, TRUE)
    /\ pre' = <<Snapshot>>
    /\ UNCHANGED <<today, nextSid, peer>>

\* Both replicas go on after their first sync: items are added, edited,
\* completed and removed on either side, and the replicas sync again.
NextSynced ==
    \/ \E r \in Roles, body \in NewBodies : AddTodoUndated(r, body)
    \/ \E r \in Roles : \E id \in TodoIds(r) : RemoveTodo(r, id)
    \/ \E r \in Roles : \E id \in TaskIds(r) : RemoveTask(r, id)
    \/ \E r \in Roles, body \in Bodies : \E id \in TodoIds(r) : DoTodoSetBody(r, id, body)
    \/ \E r \in Roles, done \in BOOLEAN : \E id \in TodoIds(r) : DoTodoSetDone(r, id, done)
    \/ \E r \in Roles, body \in Bodies : \E id \in TaskIds(r) : DoTaskSetBody(r, id, body)
    \/ \E r \in Roles : Sync(r)
    \/ \E r \in Roles : SyncAgain(r)
    \/ Tick

SpecSynced == InitSynced /\ [][NextSynced]_vars

\* TdList::new_from_json(&td.to_json()) in place of td; pre[1] is the state
\* before.
JsonRoundTrip(r) ==
    /\ Running
    /\ lists' = [lists EXCEPT ![r] = new_from_json(to_json(lists[r]))]
    /\ Did("json", r, 0, TRUE)
    /\ pre' = <<Snapshot>>
    /\ UNCHANGED <<today, nextSid, peer, panicked>>

\* The operations that fill a replica, and its serialisation.
NextJson ==
    \/ \E r \in Roles, body \in NewBodies, wd \in InWeekdays : AddTodoDated(r, body, wd)
    \/ \E r \in Roles, body \in NewBodies, wd \in InWeekdays : AddTask(r, body, wd)
    \/ \E r \in Roles : \E id \in TodoIds(r) : RemoveTodo(r, id)
    \/ \E r \in Roles, done \in BOOLEAN : \E id \in TodoIds(r) : DoTodoSetDone(r, id, done)
    \/ \E r \in Roles, done \in BOOLEAN : \E id \in TaskIds(r) : DoTaskSetDone(r, id, done)
    \/ \E r \in Roles : JsonRoundTrip(r)

SpecJson == Init /\ [][NextJson]_vars

\* A step of the crypt module: it is no operation of a replica.
CryptStep(name) ==
    /\ lastOp' = Op(name, "client", 0, TRUE)
    /\ UNCHANGED <<lists, today, nextSid, peer, panicked, nops, pre, net>>

\* ct = encrypt(msg, passwd) with the random salt and nonce filled with the
\* bytes s and n.
Encrypt(msg, passwd, s, n) ==
    /\ crypt.step = "init"
    /\ crypt' = [crypt EXCEPT !.step = "encrypted", !.msg = msg, !.passwd = passwd,
                              !.ct = encrypt(msg, passwd, SaltOf(s), NonceOf(n))]
    /\ CryptStep("encrypt")

\* The ciphertext is altered on its way.
Alter(how) ==
    /\ crypt.step = "encrypted" /\ ~crypt.altered
    /\ crypt' = [crypt EXCEPT !.ct = Altered(crypt.ct, how), !.altered = TRUE]
    /\ CryptStep("alter")

\* decrypt(ct, passwd)
Decrypt(passwd) ==
    /\ crypt.step = "encrypted"
    /\ crypt' = [crypt EXCEPT !.step = "decrypted", !.with = passwd,
                              !.res = decrypt(crypt.ct, passwd)]
    /\ CryptStep("decrypt")

\* Inputs of decrypt that are no output of encrypt: the empty one, a salt
\* alone, a salt and a nonce that lacks its last byte.
ShortInputs ==
    {<<>>, SaltOf(0), SaltOf(0) \o SubSeq(NonceOf(0), 1, NonceLen - 1)}

\* decrypt(ct, passwd) of such an input
DecryptInput(ct, passwd) ==
    /\ crypt.step = "init"
    /\ crypt' = [crypt EXCEPT !.step = "input", !.ct = ct, !.with = passwd,
                              !.res = decrypt(ct, passwd)]
    /\ CryptStep("decrypt_input")

NextCrypt ==
    \/ \E msg \in Payloads, passwd \in Passwords, s \in Bytes, n \in Bytes :
          Encrypt(msg, passwd, s, n)
    \/ \E how \in Alterations : Alter(how)
    \/ \E passwd \in Passwords : Decrypt(passwd)
    \/ \E ct \in ShortInputs, passwd \in Passwords : DecryptInput(ct, passwd)

SpecCrypt == Init /\ [][NextCrypt]_vars

\* The operations of the replicas between two client_sync calls, and the steps
\* of client_sync and of the server's listening loop.
NextNet ==
    \/ \E r \in Roles, body \in NewBodies : LocalOp /\ AddTodoUndated(r, body)
    \/ \E r \in Roles : \E id \in TodoIds(r) : LocalOp /\ RemoveTodo(r, id)
    \/ \E r \in Roles : \E id \in TodoIds(r) : LocalOp /\ DoTodoSetBody(r, id, "b")
    \/ ClientConnect
    \/ \E f \in Incoming(net.s2c, net.csid) : ClientRecvHello(f)
    \/ \E f \in Incoming(net.s2c, net.csid) : ClientRecvList(f)
    \/ \E f \in Incoming(net.s2c, net.csid) : ClientRecvOk(f)
    \/ ClientIoErr
    \/ \E f \in Incoming(net.c2s, net.ssid) : ServerRecvHello(f)
    \/ \E f \in Incoming(net.c2s, net.ssid) : ServerRecvCmd(f)
    \/ \E f \in Incoming(net.c2s, net.ssid), saved \in BOOLEAN : ServerRecvList(f, saved)
    \/ ServerIoErr

SpecNet == Init /\ [][NextNet]_vars

\* The exchanges of a client program that, after a failed client_sync, starts
\* again from its saved list: todos are added on the client and edited on the
\* server.
NextRetry ==
    \/ \E body \in NewBodies : LocalOp /\ AddTodoUndated("client", body)
    \/ \E id \in TodoIds("server") : LocalOp /\ DoTodoSetBody("server", id, "b")
    \/ ClientConnect
    \/ \E f \in Incoming(net.s2c, net.csid) : ClientRecvHello(f)
    \/ \E f \in Incoming(net.s2c, net.csid) : ClientRecvList(f)
    \/ \E f \in Incoming(net.s2c, net.csid) : ClientRecvOk(f)
    \/ ClientIoErr
    \/ ClientReload
    \/ \E f \in Incoming(net.c2s, net.ssid) : ServerRecvHello(f)
    \/ \E f \in Incoming(net.c2s, net.ssid) : ServerRecvCmd(f)
    \/ \E f \in Incoming(net.c2s, net.ssid), saved \in BOOLEAN : ServerRecvList(f, saved)
    \/ ServerIoErr

SpecRetry == Init /\ [][NextRetry]_vars

\* The frames on the TcpStream that follow the handshake: the command and the
\* synced list on their way to the server, the server's list and the
\* confirmation on their way to the client.
InFlight ==
    (IF net.spc \in {"cmd", "list"} THEN {net.c2s[i] : i \in 1..Len(net.c2s)} ELSE {})
        \cup
    (IF net.cpc \in {"list", "ok"} THEN {net.s2c[i] : i \in 1..Len(net.s2c)} ELSE {})

\* A listener on the network records a frame on the stream.
Record(f) ==
    /\ f \notin net.tape /\ Cardinality(net.tape) < MaxTape
    /\ net' = [net EXCEPT !.tape = @ \cup {f}]
    /\ NetStep("record")
    /\ UNCHANGED lists

\* The frames a read of a stream may deliver when recorded frames are sent
\* again: the one the peer wrote, or a recorded one.
Replayed(channel) == {channel[i] : i \in 1..Len(channel)} \cup net.tape

\* The exchanges of a client and a server on a network where recorded frames
\* are delivered again.
NextReplay ==
    \/ \E body \in NewBodies : LocalOp /\ AddTodoUndated("client", body)
    \/ ClientConnect
    \/ \E f \in Replayed(net.s2c) : ClientRecvHello(f)
    \/ \E f \in Replayed(net.s2c) : ClientRecvList(f)
    \/ \E f \in Replayed(net.s2c) : ClientRecvOk(f)
    \/ ClientIoErr
    \/ \E f \in Replayed(net.c2s) : ServerRecvHello(f)
    \/ \E f \in Replayed(net.c2s) : ServerRecvCmd(f)
    \/ \E f \in Replayed(net.c2s), saved \in BOOLEAN : ServerRecvList(f, saved)
    \/ ServerIoErr
    \/ \E f \in InFlight : Record(f)

SpecReplay == Init /\ [][NextReplay]_vars

\* ------------------------------------------------------------------------
\* Actions: several clients connect to one server_listening_loop
\* ------------------------------------------------------------------------
Multi == net.multi

\* A step of a client program or of the listening loop.
MultiStep(name, m) ==
    /\ net' = [net EXCEPT !.multi = m]
    /\ lastOp' = Op(name, "client", 0, TRUE)
    /\ pre' = <<>>
    /\ UNCHANGED <<today, peer, panicked, crypt>>

\* The listening loop with a fault: every connection is handled in a thread
\* of its own.
HandlerReturned_Threads == TRUE

\* server_listening_loop: the loop asks tcp.incoming() for the next stream
\* when handle_stream has returned.
HandlerReturned == \A k \in Clients : Multi.spc[k] = "none"

\* A client program adds a todo to its list.  In one run every client adds
\* one todo at most and then calls client_sync once.
MultiAdd(k, body) ==
    /\ Multi.cpc[k] = "idle" /\ Multi.cpre[k] = <<>> /\ nextSid <= MaxSid
    /\ Multi.list[k].todos.items = <<>>
    /\ MultiStep("multi_add",
                 [Multi EXCEPT !.list[k] =
                      add_todo(@, new_undated(body, nextSid, today))])
    /\ nextSid' = nextSid + 1
    /\ nops' = nops + 1
    /\ UNCHANGED lists

\* client_sync up to the first write: the listener queues the connection, the
\* client sends its random data.
MultiConnect(k) ==
    /\ Multi.cpc[k] = "idle" /\ Multi.cpre[k] = <<>>
    /\ MultiStep("multi_connect",
                 [Multi EXCEPT !.cpc[k] = "hello",
                               !.cpre[k] = <<Multi.list[k]>>,
                               !.chal[k] = Word(0 - Multi.nconn - 1),
                               !.c2s[k] = <<write_encrypted(
                                              <<Word(0 - Multi.nconn - 1)>>)>>,
                               !.s2c[k] = <<>>,
                               !.queue = Append(@, k),
                               !.nconn = @ + 1])
    /\ UNCHANGED <<lists, nextSid, nops>>

\* server_listening_loop: tcp.incoming() yields the oldest queued connection;
\* handle_stream draws its session id.
MultiAccept ==
    /\ HandlerReturned /\ Multi.queue # <<>>
    /\ MultiStep("multi_accept",
                 [Multi EXCEPT !.spc[Head(Multi.queue)] = "hello",
                               !.ssid[Head(Multi.queue)] = Word(Multi.nacc + 1),
                               !.queue = Tail(@),
                               !.nacc = @ + 1])
    /\ UNCHANGED <<lists, nextSid, nops>>

\* handle_stream returns: Err(err) is printed by the loop.
MultiServerEnd(k, res) ==
    [Multi EXCEPT !.spc[k] = "none", !.sres[k] = res, !.c2s[k] = <<>>]

\* client_sync returns.
MultiClientEnd(k, res) ==
    [Multi EXCEPT !.cpc[k] = "idle", !.cres[k] = res, !.s2c[k] = <<>>]

\* handle_stream: read the client's random data, send it back with the
\* session id.
MultiServerHello(k) ==
    /\ Multi.spc[k] = "hello" /\ Multi.c2s[k] # <<>>
    /\ LET d == read_decrypted(Multi.c2s[k][1])
       IN  MultiStep("multi_server_hello",
                     IF d.panic \/ ~d.ok THEN MultiServerEnd(k, "Err")
                     ELSE [Multi EXCEPT !.spc[k] = "cmd", !.c2s[k] = <<>>,
                                        !.s2c[k] = <<write_encrypted(
                                                       <<Multi.ssid[k]>> \o d.msg)>>])
    /\ UNCHANGED <<lists, nextSid, nops>>

\* client_sync: read the server's response, check it, send the read command.
MultiClientHello(k) ==
    /\ Multi.cpc[k] = "hello" /\ Multi.s2c[k] # <<>>
    /\ LET d == read_decrypted(Multi.s2c[k][1])
       IN  MultiStep("multi_client_hello",
                     IF d.panic \/ ~d.ok \/ Len(d.msg) < 2 THEN MultiClientEnd(k, "Err")
                     ELSE IF ~SameBytes(auth_data(d.msg), <<Multi.chal[k]>>)
                     THEN MultiClientEnd(k, "Err")
                     ELSE [Multi EXCEPT !.cpc[k] = "list", !.csid[k] = d.msg[1],
                                        !.s2c[k] = <<>>,
                                        !.c2s[k] = <<write_encrypted(
                                                       <<d.msg[1], Text("read")>>)>>])
    /\ UNCHANGED <<lists, nextSid, nops>>

\* handle_stream: read the command; respond to "read" with the TdList.
MultiServerCmd(k) ==
    /\ Multi.spc[k] = "cmd" /\ Multi.c2s[k] # <<>>
    /\ LET r == read_check_decrypted(Multi.c2s[k][1], Multi.ssid[k])
       IN  MultiStep("multi_server_cmd",
                     IF r.panic \/ r.err # "" THEN MultiServerEnd(k, "Err")
                     ELSE IF ~IsRead(r.msg) THEN MultiServerEnd(k, "Ok")
                     ELSE [Multi EXCEPT !.spc[k] = "list", !.c2s[k] = <<>>,
                                        !.s2c[k] = <<write_encrypted(
                                                       <<Multi.ssid[k],
                                                         Json(to_json(lists.server))>>)>>])
    /\ UNCHANGED <<lists, nextSid, nops>>

\* client_sync: read the server's TdList, sync with it, send the synced list
\* back.
MultiClientList(k) ==
    /\ Multi.cpc[k] = "list" /\ Multi.s2c[k] # <<>>
    /\ LET r      == read_check_decrypted(Multi.s2c[k][1], Multi.csid[k])
           server == new_from_json(r.msg[1].val)
           res    == TdListSync(Multi.list[k], server, today)
       IN  MultiStep("multi_client_list",
                     IF r.panic \/ r.err # "" THEN MultiClientEnd(k, "Err")
                     ELSE IF ~IsTdListJson(r.msg) THEN MultiClientEnd(k, "Err")
                     ELSE [Multi EXCEPT !.cpc[k] = "ok", !.list[k] = res.self,
                                        !.s2c[k] = <<>>,
                                        !.c2s[k] = <<write_encrypted(
                                                       <<Multi.csid[k],
                                                         Json(to_json(SentBack(res)))>>)>>])
    /\ UNCHANGED <<lists, nextSid, nops>>

\* handle_stream: read the synced TdList, replace self.td_list by it, send
\* "ok".
MultiServerList(k) ==
    /\ Multi.spc[k] = "list" /\ Multi.c2s[k] # <<>>
    /\ LET r == read_check_decrypted(Multi.c2s[k][1], Multi.ssid[k])
       IN  IF r.panic \/ r.err # "" \/ ~IsTdListJson(r.msg)
           THEN MultiStep("multi_server_list", MultiServerEnd(k, "Err"))
                /\ UNCHANGED lists
           ELSE /\ lists' = [lists EXCEPT !.server = new_from_json(r.msg[1].val)]
                /\ MultiStep("multi_server_list",
                             [MultiServerEnd(k, "Ok") EXCEPT
                                  !.s2c[k] = <<write_encrypted(
                                                 <<Multi.ssid[k], Text("ok")>>)>>,
                                  !.log = Append(@, Multi.cpre[k][1])])
    /\ UNCHANGED <<nextSid, nops>>

\* client_sync: read the server's confirmation.
MultiClientOk(k) ==
    /\ Multi.cpc[k] = "ok" /\ Multi.s2c[k] # <<>>
    /\ LET r == read_check_decrypted(Multi.s2c[k][1], Multi.csid[k])
       IN  MultiStep("multi_client_ok",
                     IF r.panic \/ r.err # "" \/ ~IsOk(r.msg)
                     THEN MultiClientEnd(k, "Err")
                     ELSE MultiClientEnd(k, "Ok"))
    /\ UNCHANGED <<lists, nextSid, nops>>

\* A read of the client's stream times out.
MultiClientTimeout(k) ==
    /\ Multi.cpc[k] \in {"hello", "list", "ok"} /\ Multi.s2c[k] = <<>>
    /\ MultiStep("multi_client_timeout", MultiClientEnd(k, "Err"))
    /\ UNCHANGED <<lists, nextSid, nops>>

\* A read of the server's stream times out or finds the stream closed.
MultiServerTimeout(k) ==
    /\ Multi.spc[k] \in {"hello", "cmd", "list"} /\ Multi.c2s[k] = <<>>
    /\ MultiStep("multi_server_timeout", MultiServerEnd(k, "Err"))
    /\ UNCHANGED <<lists, nextSid, nops>>

\* Client programs that add todos and sync with one server at the same time.
NextMulti ==
    \/ \E k \in Clients, body \in NewBodies : MultiAdd(k, body)
    \/ \E k \in Clients : MultiConnect(k)
    \/ MultiAccept
    \/ \E k \in Clients : MultiServerHello(k)
    \/ \E k \in Clients : MultiClientHello(k)
    \/ \E k \in Clients : MultiServerCmd(k)
    \/ \E k \in Clients : MultiClientList(k)
    \/ \E k \in Clients : MultiServerList(k)
    \/ \E k \in Clients : MultiClientOk(k)
    \/ \E k \in Clients : MultiClientTimeout(k)
    \/ \E k \in Clients : MultiServerTimeout(k)

SpecMulti == Init /\ [][NextMulti]_vars

\* ------------------------------------------------------------------------
\* Peers that stop sending
\* ------------------------------------------------------------------------
\* The peer stops: it sends nothing more on its connection.
MultiStop(k) ==
    /\ Multi.cpc[k] \in {"hello", "list", "ok"}
    /\ Cardinality({j \in Clients : Multi.cres[j] = "Stopped"}) < MaxStops
    /\ MultiStep("multi_stop", MultiClientEnd(k, "Stopped"))
    /\ UNCHANGED <<lists, nextSid, nops>>

\* The read timeout of handle_stream with a fault: the read blocks for ever.
MultiServerGivesUp_Never(k) == FALSE /\ UNCHANGED vars

\* handle_stream: a read of the stream of a peer that sends nothing more ends
\* with the read timeout.
MultiServerGivesUp(k) == Multi.cpc[k] = "idle" /\ MultiServerTimeout(k)

\* Clients that sync with one server; a client may stop at any step.  A read
\* times out only when the other side sends nothing.
NextLive ==
    \/ \E k \in Clients, body \in NewBodies : MultiAdd(k, body)
    \/ \E k \in Clients : MultiConnect(k)
    \/ MultiAccept
    \/ \E k \in Clients : MultiServerHello(k)
    \/ \E k \in Clients : MultiClientHello(k)
    \/ \E k \in Clients : MultiServerCmd(k)
    \/ \E k \in Clients : MultiClientList(k)
    \/ \E k \in Clients : MultiServerList(k)
    \/ \E k \in Clients : MultiClientOk(k)
    \/ \E k \in Clients : MultiStop(k)
    \/ \E k \in Clients : MultiServerGivesUp(k)

\* handle_stream's next read of a frame that has arrived.
MultiServerRead(k) ==
    MultiServerHello(k) \/ MultiServerCmd(k) \/ MultiServerList(k)

\* client_sync's next read of a frame that has arrived.
MultiClientRead(k) ==
    MultiClientHello(k) \/ MultiClientList(k) \/ MultiClientOk(k)

\* A read step can be taken exactly when the reader waits for a frame and
\* the frame has arrived.
ServerCanRead(k) ==
    Multi.spc[k] \in {"hello", "cmd", "list"} /\ Multi.c2s[k] # <<>>

ClientCanRead(k) ==
    Multi.cpc[k] \in {"hello", "list", "ok"} /\ Multi.s2c[k] # <<>>

\* The listening loop and handle_stream run, their reads time out
\* (set_read_timeout), and a client that has not stopped goes on.  Weak
\* fairness of the read steps is written out with their enabling condition.
LiveFairness ==
    /\ WF_vars(MultiAccept)
    /\ \A k \in Clients :
          /\ WF_vars(MultiServerGivesUp(k))
          /\ \/ []<>~ServerCanRead(k)
             \/ []<><<MultiServerRead(k)>>_vars
          /\ \/ []<>~ClientCanRead(k)
             \/ []<><<MultiClientRead(k)>>_vars

SpecLive == Init /\ [][NextLive]_vars /\ LiveFairness

\* ------------------------------------------------------------------------
\* Properties of sync
\* ------------------------------------------------------------------------
Kinds == {"todos", "tasks"}
Sids == 1..MaxSid
Live == {"New", "Unchanged", "Changed"}

\* The last operation was a sync of the client with the server; pre[1] is the
\* state it started from.
SyncDone == lastOp.op = "sync" /\ pre # <<>>

A0 == pre[1].lists.client
B0 == pre[1].lists.server

Held(td, k, sid) == get_item_by_sync_id(td[k].items, sid) # 0
ItemOf(td, k, sid) == td[k].items[get_item_by_sync_id(td[k].items, sid)]
HeldAs(td, k, sid, states) == Held(td, k, sid) /\ ItemOf(td, k, sid).state \in states
LiveHeld(td, k, sid) == HeldAs(td, k, sid, Live)

\* The replica's copy is a Todo completed before the day: the pre-pass of sync
\* removes it.
Old(td, k, sid, day) ==
    k = "todos" /\ Held(td, k, sid) /\ can_remove_wtd(ItemOf(td, k, sid), day)

\* After the sync: the item is live in both replicas with the same mutable
\* fields / no replica holds an item with the sync_id.
InBoth(k, sid) ==
    /\ LiveHeld(lists.client, k, sid)
    /\ LiveHeld(lists.server, k, sid)
    /\ ItemEq(ItemOf(lists.client, k, sid), ItemOf(lists.server, k, sid))

InNeither(k, sid) == ~Held(lists.client, k, sid) /\ ~Held(lists.server, k, sid)

\* Before the sync: the item was present and not removed in A or in B.
InScope(k, sid) == LiveHeld(A0, k, sid) \/ LiveHeld(B0, k, sid)

\* Before the sync: the client held the item as removed / the client held it
\* Unchanged and the server did not hold it.
RemovedOnClient(k, sid) == HeldAs(A0, k, sid, {"Removed"})
RemovedOnServer(k, sid) == HeldAs(A0, k, sid, {"Unchanged"}) /\ ~Held(B0, k, sid)

\* C1, as stated: after A.sync(B) every item that was present and not removed
\* in A or in B is present with identical mutable fields in both, except an
\* item that was removed on one side with no local edit on the other, which is
\* absent from both.
C1_Original ==
    SyncDone =>
        \A k \in Kinds, sid \in Sids :
            InScope(k, sid) =>
                IF \/ RemovedOnClient(k, sid) /\ ~HeldAs(B0, k, sid, {"Changed"})
                   \/ RemovedOnServer(k, sid)
                THEN InNeither(k, sid)
                ELSE InBoth(k, sid)

\* C1, amended: after A.sync(B) every item that was present and not removed in
\* A or in B, and of which no copy is a Todo completed before the day of the
\* sync, is present with identical mutable fields in both, except an item that
\* the client held as removed, or that the client held Unchanged while the
\* server did not hold it, which is absent from both.
C1_SyncConverges ==
    SyncDone =>
        \A k \in Kinds, sid \in Sids :
            (/\ InScope(k, sid)
             /\ ~Old(A0, k, sid, pre[1].today)
             /\ ~Old(B0, k, sid, pre[1].today)) =>
                IF RemovedOnClient(k, sid) \/ RemovedOnServer(k, sid)
                THEN InNeither(k, sid)
                ELSE InBoth(k, sid)

\* A sync that merged an edit: both replicas held the item with different
\* fields, and hold it with the same fields now.
C1_Witness ==
    /\ SyncDone
    /\ \E k \in Kinds, sid \in Sids :
          /\ LiveHeld(A0, k, sid) /\ LiveHeld(B0, k, sid)
          /\ ~ItemEq(ItemOf(A0, k, sid), ItemOf(B0, k, sid))
          /\ InBoth(k, sid)

\* The item the operation before the sync was about.
PreOpKind == IF pre[1].op.op \in {"add_todo", "remove_todo"} THEN "todos" ELSE "tasks"
PreOpItem == A0[PreOpKind].items[pre[1].op.id + 1]

\* The sync directly follows an add_todo / add_task of the client.
AddedThenSynced ==
    /\ SyncDone
    /\ pre[1].op.op \in {"add_todo", "add_task"}
    /\ pre[1].op.r = "client"

\* C2: after adding X to the client A and syncing A with the server B, B
\* contains an item value-equal to X and A still contains X.
C2_NewItemPropagates ==
    AddedThenSynced =>
        /\ \E i \in 1..Len(LiveItems(lists.server[PreOpKind])) :
              ItemEq(LiveItems(lists.server[PreOpKind])[i], PreOpItem)
        /\ \E i \in 1..Len(LiveItems(lists.client[PreOpKind])) :
              /\ LiveItems(lists.client[PreOpKind])[i].sync_id = PreOpItem.sync_id
              /\ ItemEq(LiveItems(lists.client[PreOpKind])[i], PreOpItem)

\* An added task reached the server, which held another task already.
C2_Witness ==
    /\ AddedThenSynced
    /\ pre[1].op.op = "add_task"
    /\ Len(B0.tasks.items) = 1
    /\ Len(lists.server.tasks.items) = 2

\* The sync directly follows a remove_todo / remove_task of the client, of an
\* item the server holds.
RemovedThenSynced ==
    /\ SyncDone
    /\ pre[1].op.op \in {"remove_todo", "remove_task"}
    /\ pre[1].op.r = "client"
    /\ Held(B0, PreOpKind, PreOpItem.sync_id)

\* C3: after removing X from the client A by id and syncing with the server B
\* that holds X, no item with X's sync_id is in B nor in A.
C3_RemovalPropagates ==
    RemovedThenSynced => InNeither(PreOpKind, PreOpItem.sync_id)

\* A todo both replicas held, removed on the client, has left the server.
C3_Witness ==
    /\ RemovedThenSynced
    /\ pre[1].op.op = "remove_todo"
    /\ Len(B0.todos.items) = 1
    /\ Len(lists.server.todos.items) = 0

\* After the sync both replicas hold the item with the mutable fields of x.
InBothAs(k, sid, x) == InBoth(k, sid) /\ ItemEq(ItemOf(lists.client, k, sid), x)

\* Before the sync: the client held the item Changed and the server held it
\* Unchanged (untouched since the last sync).
ClientEdited(k, sid) ==
    HeldAs(A0, k, sid, {"Changed"}) /\ HeldAs(B0, k, sid, {"Unchanged"})

\* C4, as stated: if the client A edits X (marker Changed) while the server B
\* has not touched X since the last sync, then after the sync both hold X with
\* A's edited field values.
C4_Original ==
    SyncDone =>
        \A k \in Kinds, sid \in Sids :
            ClientEdited(k, sid) => InBothAs(k, sid, ItemOf(A0, k, sid))

\* C4, amended: if the client A edits X (marker Changed) while the server B
\* has not touched X since the last sync, and A's X is not a Todo completed
\* before the day of the sync, then after the sync both hold X with A's edited
\* field values.
C4_EditWinsOverStale ==
    SyncDone =>
        \A k \in Kinds, sid \in Sids :
            (ClientEdited(k, sid) /\ ~Old(A0, k, sid, pre[1].today)) =>
                InBothAs(k, sid, ItemOf(A0, k, sid))

\* The client's edit changed a field, and the server took it over.
C4_Witness ==
    /\ SyncDone
    /\ \E k \in Kinds, sid \in Sids :
          /\ ClientEdited(k, sid)
          /\ ~ItemEq(ItemOf(A0, k, sid), ItemOf(B0, k, sid))
          /\ InBothAs(k, sid, ItemOf(A0, k, sid))

\* The number of live items of the collection is the same as before the sync,
\* on both sides.
SameCounts(k) ==
    /\ Len(LiveItems(lists.client[k])) = Len(LiveItems(A0[k]))
    /\ Len(LiveItems(lists.server[k])) = Len(LiveItems(B0[k]))

\* Before the sync no item of the collection was added or removed: both sides
\* hold the same items, none New or Removed.
Settled(k) ==
    /\ \A i \in 1..Len(A0[k].items) :
          /\ A0[k].items[i].state \in {"Unchanged", "Changed"}
          /\ Held(B0, k, A0[k].items[i].sync_id)
    /\ \A i \in 1..Len(B0[k].items) :
          /\ B0[k].items[i].state \in {"Unchanged", "Changed"}
          /\ Held(A0, k, B0[k].items[i].sync_id)

\* Before the sync no copy of an item of the collection was a Todo completed
\* before the day.
NoneOld(k) ==
    /\ \A i \in 1..Len(A0[k].items) :
          ~Old(A0, k, A0[k].items[i].sync_id, pre[1].today)
    /\ \A i \in 1..Len(B0[k].items) :
          ~Old(B0, k, B0[k].items[i].sync_id, pre[1].today)

\* C5, as stated: if the server edits an item that the client holds Unchanged,
\* then after the next sync the client's copy has the server's field values
\* and the number of items on both sides is unchanged (no other item having
\* been added or removed).
C5_Original ==
    SyncDone =>
        \A k \in Kinds, sid \in Sids :
            (HeldAs(A0, k, sid, {"Unchanged"}) /\ HeldAs(B0, k, sid, {"Changed"})) =>
                /\ InBothAs(k, sid, ItemOf(B0, k, sid))
                /\ Settled(k) => SameCounts(k)

\* C5, amended: if the server holds its own version of an item that the client
\* holds Unchanged, and neither copy is a Todo completed before the day of the
\* sync, then after the next sync the client's copy has the server's field
\* values; and the number of items on both sides is unchanged when no item of
\* the collection was added, removed or completed before that day.
C5_ServerEditPropagates ==
    SyncDone =>
        \A k \in Kinds, sid \in Sids :
            (/\ HeldAs(A0, k, sid, {"Unchanged"}) /\ LiveHeld(B0, k, sid)
             /\ ~Old(A0, k, sid, pre[1].today)
             /\ ~Old(B0, k, sid, pre[1].today)) =>
                /\ InBothAs(k, sid, ItemOf(B0, k, sid))
                /\ (Settled(k) /\ NoneOld(k)) => SameCounts(k)

\* The server's edit changed a field of an item, the client took it over, and
\* both sides hold as many items as before.
C5_Witness ==
    /\ SyncDone
    /\ \E k \in Kinds, sid \in Sids :
          /\ HeldAs(A0, k, sid, {"Unchanged"}) /\ HeldAs(B0, k, sid, {"Changed"})
          /\ ~ItemEq(ItemOf(A0, k, sid), ItemOf(B0, k, sid))
          /\ InBothAs(k, sid, ItemOf(B0, k, sid))
          /\ Settled(k) /\ NoneOld(k) /\ SameCounts(k)

\* C6: if an item the client holds Unchanged has been removed on the server
\* since the last sync, then after the next sync the item is absent from both
\* the client and the server.
C6_ServerRemovalPropagates ==
    SyncDone =>
        \A k \in Kinds, sid \in Sids :
            RemovedOnServer(k, sid) => InNeither(k, sid)

\* The server removed a todo the client held Unchanged, and the sync took it
\* from the client.
C6_Witness ==
    /\ SyncDone
    /\ pre[1].op.op = "remove_todo" /\ pre[1].op.r = "server"
    /\ \E sid \in Sids : RemovedOnServer("todos", sid) /\ InNeither("todos", sid)

\* ------------------------------------------------------------------------
\* Properties of the replicas
\* ------------------------------------------------------------------------
\* Every item of the list `after` is an item of the list `before`: nothing was
\* merged into it.
NothingMerged(after, before) ==
    \A k \in Kinds :
        \A i \in 1..Len(after[k].items) :
            \E j \in 1..Len(before[k].items) :
                /\ after[k].items[i].sync_id = before[k].items[j].sync_id
                /\ ItemEq(after[k].items[i], before[k].items[j])

\* C7: a sync of two server-role or of two client-role replicas fails with a
\* panic and merges no item of one replica into the other.
C7_SameRoleSyncPanics ==
    lastOp.op = "sync_same_role" =>
        /\ panicked
        /\ NothingMerged(lists[lastOp.r], pre[1].lists[lastOp.r])
        /\ NothingMerged(peer[1], pre[1].peer[1])

\* A same-role sync panicked although each list held an item the other one
\* lacked.
C7_Witness ==
    /\ lastOp.op = "sync_same_role" /\ panicked
    /\ \E i \in 1..Len(peer[1].todos.items) :
          ~Held(lists[lastOp.r], "todos", peer[1].todos.items[i].sync_id)
    /\ \E i \in 1..Len(lists[lastOp.r].todos.items) :
          ~Held(peer[1], "todos", lists[lastOp.r].todos.items[i].sync_id)

\* C8: in every reachable state of a client-role or server-role replica the id
\* of every live (not Removed) item equals its 0-based position among the
\* live items of the same collection.
C8_IdInvariant ==
    \A r \in Roles, k \in Kinds :
        \A i \in 1..Len(LiveItems(lists[r][k])) :
            LiveItems(lists[r][k])[i].id = i - 1

\* C9: in every reachable state no item of a collection of the server-role
\* replica has the marker Removed.
C9_NoServerTombstone ==
    \A k \in Kinds :
        \A i \in 1..Len(lists.server[k].items) :
            lists.server[k].items[i].state # "Removed"

\* The server removed one of its two todos and holds the other one.
C9_Witness ==
    /\ lastOp.op = "remove_todo" /\ lastOp.r = "server"
    /\ Len(lists.server.todos.items) = 1

TodoSetters == {"todo_set_body", "todo_set_weekday", "todo_set_done"}
TaskSetters == {"task_set_body", "task_set_weekdays", "task_add_weekday",
                "task_remove_weekday", "task_set_done"}

\* C10: every setter called on the handle of get_todo_mut / get_task_mut
\* leaves the item's marker Changed.
C10_SettersMarkChanged ==
    /\ lastOp.op \in TodoSetters =>
          lists[lastOp.r].todos.items[lastOp.id + 1].state = "Changed"
    /\ lastOp.op \in TaskSetters =>
          lists[lastOp.r].tasks.items[lastOp.id + 1].state = "Changed"


\* ------------------------------------------------------------------------
\* Claims about client_sync and the server's listening loop
\* ------------------------------------------------------------------------
ClientSteps == {"client_connect", "client_hello", "client_list", "client_ok",
                "client_io_err"}
ServerSteps == {"server_hello", "server_cmd", "server_list", "server_io_err"}

\* client_sync has just returned Err(_) / Ok(()).
ClientReturnedErr ==
    /\ lastOp.op \in ClientSteps
    /\ net.cpc = "idle"
    /\ net.cres \notin {"none", "Ok", "panic"}
ClientReturnedOk ==
    /\ lastOp.op \in ClientSteps
    /\ net.cpc = "idle"
    /\ net.cres = "Ok"

\* C11: if client_sync returns an error at any step of the protocol, the steps
\* after the local merge included, the client's replica equals its value
\* before the call.
C11_ErrorLeavesReplica ==
    ClientReturnedErr => lists.client = net.cpre[1]


\* handle_stream has just failed.
ServerFailed ==
    /\ lastOp.op \in ServerSteps
    /\ net.sres \notin {"none", "Ok"}

\* C12: any failure while the server handles one connection (IO error or
\* timeout, a frame shorter than the 28 bytes of salt and nonce, decryption
\* failure, session-id mismatch, a command other than "read", an
\* undeserializable replica) ends only that connection: the server process
\* keeps running and its accept loop handles the next connection.
C12_FailureEndsOnlyConnection ==
    ServerFailed => net.spc = "accept"


\* Both replicas hold the same live items of a collection: the same sync_ids
\* with equal mutable fields.
SameLive(k) ==
    \A sid \in Sids :
        /\ LiveHeld(lists.client, k, sid) <=> LiveHeld(lists.server, k, sid)
        /\ LiveHeld(lists.client, k, sid) =>
               ItemEq(ItemOf(lists.client, k, sid), ItemOf(lists.server, k, sid))

\* C13: whenever client_sync returns success, the replica the server holds is
\* the merged server-side replica the client sent in that exchange, and the
\* client's and the server's replica contain the same live items.
C13_SuccessMeansServerHasMerged ==
    ClientReturnedOk =>
        /\ net.merged # <<>>
        /\ lists.server = net.merged[1]
        /\ \A k \in Kinds : SameLive(k)

\* ------------------------------------------------------------------------
\* Claims about the operations of one replica
\* ------------------------------------------------------------------------
RemoveDone == lastOp.op \in {"remove_todo", "remove_task"} /\ pre # <<>>

\* The collection remove_todo / remove_task was called on, before the call.
RemoveList ==
    IF lastOp.op = "remove_todo" THEN pre[1].lists[lastOp.r].todos
                                 ELSE pre[1].lists[lastOp.r].tasks

NoSuchId ==
    \/ lastOp.id >= Len(RemoveList.items)
    \/ RemoveList.items[lastOp.id + 1].state = "Removed"

\* C14: remove_todo / remove_task with an id that is out of range or that
\* addresses an item already marked Removed returns the no-such-id error and
\* leaves the replica unchanged.
C14_RemoveNoSuchId ==
    (RemoveDone /\ NoSuchId) => (~lastOp.ok /\ lists = pre[1].lists)

\* remove_todo has failed on an item of the client that was removed before,
\* next to a live item.
C14_Witness ==
    /\ RemoveDone /\ lastOp.op = "remove_todo" /\ ~lastOp.ok
    /\ lastOp.id < Len(RemoveList.items)
    /\ RemoveList.items[lastOp.id + 1].state = "Removed"
    /\ Len(LiveItems(lists[lastOp.r].todos)) > 0


\* remove_old_todos has just run on replica lastOp.r; OldBefore are its todos
\* before the call and OldAfter its todos after it.
OldDone == lastOp.op = "remove_old_todos" /\ pre # <<>>
OldBefore == pre[1].lists[lastOp.r].todos.items
OldAfter == lists[lastOp.r].todos.items

\* The todo was completed on a day before today.
DoneBefore(t, day) == t.done # None /\ t.done[1] + 1 <= day

\* The todo is gone: marked Removed on a client, absent on a server.
Gone(t) ==
    IF lists[lastOp.r].server
    THEN get_item_by_sync_id(OldAfter, t.sync_id) = 0
    ELSE /\ get_item_by_sync_id(OldAfter, t.sync_id) # 0
         /\ OldAfter[get_item_by_sync_id(OldAfter, t.sync_id)].state = "Removed"

\* The todo is stored as it was.
Kept(t) ==
    /\ get_item_by_sync_id(OldAfter, t.sync_id) # 0
    /\ OldAfter[get_item_by_sync_id(OldAfter, t.sync_id)] = t

\* C15: a todo completed on day D is not marked Removed by remove_old_todos
\* run with today = D, and is marked Removed (physically removed on a server)
\* by remove_old_todos run with any today >= D + 1; a todo that is not done
\* is never removed by it.
C15_OldAfterOneDay ==
    OldDone =>
        \A i \in 1..Len(OldBefore) :
            OldBefore[i].state # "Removed" =>
                IF DoneBefore(OldBefore[i], today)
                THEN Gone(OldBefore[i])
                ELSE Kept(OldBefore[i])

\* remove_old_todos on a server on the day after a todo was completed: that
\* todo is dropped.
C15_Witness ==
    /\ OldDone /\ lists[lastOp.r].server
    /\ \E i \in 1..Len(OldBefore) :
          /\ OldBefore[i].state # "Removed"
          /\ OldBefore[i].done = Some(today - 1)
          /\ Gone(OldBefore[i])


\* self_sync has just run on replica lastOp.r.
SelfSyncDone == lastOp.op = "self_sync" /\ pre # <<>>

\* C16: for every replica state and a fixed current date, calling self_sync
\* twice in a row yields the same collections (items, order, ids, markers) as
\* calling it once.
C16_SelfSyncIdempotent ==
    SelfSyncDone => self_sync(lists[lastOp.r], today) = lists[lastOp.r]

\* A self_sync of a client that dropped the first of its todos and kept
\* another one: a second self_sync leaves the list as the first left it.
C16_Witness ==
    /\ SelfSyncDone
    /\ Len(pre[1].lists[lastOp.r].todos.items) > 1
    /\ pre[1].lists[lastOp.r].todos.items[1].state = "Removed"
    /\ Len(lists[lastOp.r].todos.items) = 1
    /\ self_sync(lists[lastOp.r], today) = lists[lastOp.r]


\* The role flag of the replica and the role flags of its two collections.
RoleFlags(td) == <<td.server, td.todos.server, td.tasks.server>>

\* C17: the role of a replica is fixed at creation: in every reachable state,
\* also after the server has replaced its replica by the one received from a
\* client, the replica's role flag and the role flags of both of its
\* collections equal the role it was created with.
C17_RoleFixed ==
    /\ RoleFlags(lists.client) = RoleFlags(new_client)
    /\ RoleFlags(lists.server) = RoleFlags(new_server)

\* The server has just replaced its replica by a received one that holds an
\* item the server did not hold before.
C17_Witness ==
    /\ lastOp.op = "server_list" /\ net.sres = "Ok"
    /\ net.merged # <<>> /\ lists.server = net.merged[1]
    /\ Len(lists.server.todos.items) > 0
    /\ RoleFlags(lists.server) = <<TRUE, TRUE, TRUE>>
    /\ \E sid \in Sids : LiveHeld(net.cpre[1], "todos", sid)
                         /\ LiveHeld(lists.server, "todos", sid)


\* A replica has just been replaced by new_from_json of its to_json.
JsonDone == lastOp.op = "json" /\ pre # <<>>

\* The items of a collection are the same, in the same order, with the same
\* fields.
SameItems(a, b) ==
    /\ Len(a) = Len(b)
    /\ \A i \in 1..Len(a) :
          /\ ItemEq(a[i], b[i])
          /\ a[i].state = b[i].state
          /\ a[i].id = b[i].id
          /\ a[i].sync_id = b[i].sync_id

\* C18: for every replica, new_from_json of the document to_json produced
\* yields a replica with the same items in the same order, the same marker,
\* id and sync_id for each item, and the same role flags.
C18_JsonRoundTrip ==
    JsonDone =>
        /\ SameItems(lists[lastOp.r].todos.items, pre[1].lists[lastOp.r].todos.items)
        /\ SameItems(lists[lastOp.r].tasks.items, pre[1].lists[lastOp.r].tasks.items)
        /\ RoleFlags(lists[lastOp.r]) = RoleFlags(pre[1].lists[lastOp.r])

\* The round trip of a replica that holds a completed todo and a task.
C18_Witness ==
    /\ JsonDone
    /\ \E i \in 1..Len(lists[lastOp.r].todos.items) :
          /\ lists[lastOp.r].todos.items[i].done # None
          /\ lists[lastOp.r].todos.items[i].state = "Changed"
    /\ Len(lists[lastOp.r].tasks.items) > 0
    /\ lists[lastOp.r] = pre[1].lists[lastOp.r]


\* ------------------------------------------------------------------------
\* Claims about crypt
\* ------------------------------------------------------------------------
Decrypted == crypt.step = "decrypted"

\* C19: decrypt(encrypt(payload, pw), pw) succeeds and returns exactly
\* payload, for every payload and every password.
C19_DecryptOfEncrypt ==
    (Decrypted /\ ~crypt.altered /\ crypt.with = crypt.passwd) =>
        /\ ~crypt.res.panic
        /\ crypt.res.ok
        /\ SameBytes(crypt.res.msg, crypt.msg)

\* The round trip of a payload of two parts under a password that is not the
\* empty one.
C19_Witness ==
    /\ Decrypted /\ ~crypt.altered /\ crypt.with = crypt.passwd
    /\ crypt.passwd # ""
    /\ Len(crypt.msg) = 2
    /\ crypt.res.ok /\ SameBytes(crypt.res.msg, crypt.msg)

\* C20: decrypt of an output of encrypt fails with the decryption error and
\* returns no payload whenever the password differs from the one used to
\* encrypt or the ciphertext was altered (for example by appending bytes).
C20_AlteredFails ==
    (Decrypted /\ (crypt.altered \/ crypt.with # crypt.passwd)) =>
        /\ ~crypt.res.panic
        /\ ~crypt.res.ok
        /\ crypt.res.msg = <<>>


\* C21: decrypt applied to an input shorter than the 28 bytes of salt and
\* nonce, the empty input included, fails with the decryption error returned
\* as a value; it does not abort the calling process.
C21_ShortInputFails ==
    (crypt.step = "input" /\ Len(crypt.ct) < SaltLen + NonceLen) =>
        /\ ~crypt.res.panic
        /\ ~crypt.res.ok


\* ------------------------------------------------------------------------
\* Claims about the replicas after a sync
\* ------------------------------------------------------------------------
\* C22: after every completed sync between a client-role and a server-role
\* replica, started from any pair of reachable states, the two replicas hold
\* the same set of live sync_ids and, for each of them, equal mutable fields.
\* The sync is complete after TdList::sync on two replicas in one process,
\* and after a client_sync that returned Ok(()).
C22_SameLiveAfterSync ==
    (SyncDone \/ ClientReturnedOk) => \A k \in Kinds : SameLive(k)


\* Two replicas hold the same live items of a collection with equal mutable
\* fields.
SameLiveIn(a, b, k) ==
    \A sid \in Sids :
        /\ LiveHeld(a, k, sid) <=> LiveHeld(b, k, sid)
        /\ LiveHeld(a, k, sid) => ItemEq(ItemOf(a, k, sid), ItemOf(b, k, sid))

\* The replicas a sync without the self_sync would have left.
Direct == TdListSync(pre[1].lists.client, pre[1].lists.server, today)

\* C23: pending local changes survive self_sync: running self_sync on the
\* client before the next sync yields the same client and server replicas
\* after the sync as not running it; an item added on the client, then
\* self_sync, then sync, is present on both sides.
C23_SelfSyncKeepsPending ==
    lastOp.op = "self_sync_sync" =>
        \A k \in Kinds :
            /\ SameLiveIn(lists.client, Direct.self, k)
            /\ SameLiveIn(lists.server, Direct.other, k)


\* ------------------------------------------------------------------------
\* Claims about interrupted exchanges
\* ------------------------------------------------------------------------
\* The todos the client had added (marker New) before the call that failed,
\* and that it still held live when the later call started.
AddedBeforeFailure ==
    {sid \in net.lost : LiveHeld(net.cpre[1], "todos", sid)}

\* C24: no item is lost by a failed sync attempt: if client_sync fails after
\* the local merge but before the server has stored the merged replica, then
\* after a later successful client_sync every item that was added on the
\* client before the failed attempt and never removed is present on both the
\* client and the server.
C24_NoItemLostByFailure ==
    ClientReturnedOk =>
        \A sid \in AddedBeforeFailure : InBoth("todos", sid)


\* No two items of the collection carry the same sync_id.
Unique(items) ==
    \A i, j \in 1..Len(items) : items[i].sync_id = items[j].sync_id => i = j

\* C25: sync_id uniqueness: in every reachable state no collection of a
\* replica contains two items with the same sync_id, also when an exchange is
\* interrupted after the server stored the merged replica and before the
\* client received "ok", and the client retries from its saved replica.
C25_SyncIdsUnique ==
    \A r \in Roles, k \in Kinds : Unique(lists[r][k].items)


\* ------------------------------------------------------------------------
\* Claims about the markers
\* ------------------------------------------------------------------------
\* The operations that sweep the items marked Removed.
Syncs == {"sync", "self_sync", "sync_same_role"}

\* The item at the position of the client's collection is marked Removed and
\* so hidden from todos() / tasks().
Tombstone(td, k, i) == i <= Len(td[k].items) /\ td[k].items[i].state = "Removed"

\* C26: a tombstone never comes back to life: on a client replica, once an
\* item is marked Removed, no operation before the next sync or self_sync (in
\* particular get_todo_mut / get_task_mut on its id followed by a setter)
\* changes its marker away from Removed or makes it visible in todos() or
\* tasks().
C26_TombstoneStays ==
    [][lastOp'.op \notin Syncs =>
          \A k \in Kinds : \A i \in 1..Len(lists.client[k].items) :
              Tombstone(lists.client, k, i) => Tombstone(lists'.client, k, i)]_vars


\* The collection after sync_self: every item is Unchanged (so none is
\* Removed) and its id is its 0-based position.
NormalForm(l) ==
    \A i \in 1..Len(l.items) :
        l.items[i].state = "Unchanged" /\ l.items[i].id = i - 1

\* C27: after every sync, on both replicas, and after every self_sync, on the
\* replica it ran on: no item is marked Removed, every item is marked
\* Unchanged, and the id of each item equals its 0-based position.
C27_NormalFormAfterSync ==
    /\ SyncDone => \A r \in Roles, k \in Kinds : NormalForm(lists[r][k])
    /\ lastOp.op = "self_sync" => \A k \in Kinds : NormalForm(lists[lastOp.r][k])

\* A sync of a client whose first todo was marked Removed and whose second
\* todo was New: the second todo is now the first one on both replicas.
C27_Witness ==
    /\ SyncDone
    /\ Len(A0.todos.items) = 2
    /\ A0.todos.items[1].state = "Removed"
    /\ A0.todos.items[2].state = "New"
    /\ \A r \in Roles :
          /\ Len(lists[r].todos.items) = 1
          /\ lists[r].todos.items[1].sync_id = A0.todos.items[2].sync_id


\* ------------------------------------------------------------------------
\* Claims about the messages of an exchange
\* ------------------------------------------------------------------------
\* The response is at least 16 bytes long (a session id and 8 more bytes) and
\* its bytes after the first 8 are the random data the client sent.
AnswersChallenge(msg) ==
    /\ Len(msg) >= 2
    /\ SameBytes(SubSeq(msg, 2, Len(msg)), <<net.chal>>)

\* The step is client_sync reading the frame as the response to its random
\* data, and the frame decrypts to a message.
HelloRead(f) == ClientRecvHello(f) /\ ~read_decrypted(f).panic /\ read_decrypted(f).ok

\* C28: the client sends session_id + "read" only after it received a
\* handshake response of at least 16 bytes whose bytes after the first 8 equal
\* the challenge; otherwise client_sync fails with the authentication error,
\* sends no further message, and its local replica is unchanged.
C28_ReadOnlyAfterChallenge ==
    [][\A f \in Incoming(net.s2c, net.csid) :
          (lastOp'.op = "client_hello" /\ HelloRead(f)) =>
              IF AnswersChallenge(read_decrypted(f).msg)
              THEN /\ net'.cpc = "list"
                   /\ net'.c2s = <<write_encrypted(
                                     <<read_decrypted(f).msg[1], Text("read")>>)>>
              ELSE /\ net'.cpc = "idle" /\ net'.cres = "AuthFailed"
                   /\ net'.c2s = net.c2s
                   /\ lists'.client = lists.client]_vars

\* client_sync has just refused a response and the client holds an item.
C28_Witness ==
    /\ lastOp.op = "client_hello"
    /\ net.cpc = "idle" /\ net.cres = "AuthFailed"
    /\ lists.client.todos.items # <<>>


\* The frame decrypts to exactly the session id of the connection followed by
\* "read".
ReadOfSession(f) ==
    /\ ~read_decrypted(f).panic /\ read_decrypted(f).ok
    /\ SameBytes(read_decrypted(f).msg, <<net.ssid, Text("read")>>)

\* The frame carries a serialized TdList.
ListFrame(f) ==
    /\ ~read_decrypted(f).panic /\ read_decrypted(f).ok
    /\ Len(read_decrypted(f).msg) = 2 /\ read_decrypted(f).msg[2].kind = "json"

\* C29: the server sends its serialized replica on a connection only after it
\* received on that connection a message that decodes to exactly its session
\* id followed by "read"; after any other command it sends nothing more on
\* that connection and its replica is unchanged.
C29_ListOnlyAfterRead ==
    [][/\ \A f \in Incoming(net.c2s, net.ssid) :
             (lastOp'.op = "server_cmd" /\ ServerRecvCmd(f)) =>
                 IF ReadOfSession(f)
                 THEN net'.s2c = <<write_encrypted(
                                     <<net.ssid, Json(to_json(lists.server))>>)>>
                 ELSE /\ net'.spc \in {"accept", "dead"}
                      /\ net'.s2c = net.s2c
                      /\ lists'.server = lists.server
       /\ (net'.s2c # net.s2c /\ net'.s2c # <<>> /\ ListFrame(net'.s2c[1])) =>
             \E f \in Incoming(net.c2s, net.ssid) :
                 ServerRecvCmd(f) /\ ReadOfSession(f)]_vars

\* handle_stream has just ended a connection on a command that is not "read",
\* and the server holds an item.
C29_Witness ==
    /\ lastOp.op = "server_cmd"
    /\ net.spc = "accept" /\ net.sres = "Ok"
    /\ lists.server.todos.items # <<>>


\* The frame decrypts to a message that is shorter than 8 bytes or whose first
\* 8 bytes are not the session id.
NotOfSession(f, sid) ==
    /\ ~read_decrypted(f).panic /\ read_decrypted(f).ok
    /\ \/ Len(read_decrypted(f).msg) < 1
       \/ ~SamePart(read_decrypted(f).msg[1], sid)

\* The client / the server fails with the authentication error; it has sent
\* nothing and its replica is what it was.
ClientRefuses ==
    /\ net'.cpc = "idle" /\ net'.cres = "AuthFailed"
    /\ net'.c2s = net.c2s
    /\ lists'.client = lists.client

ServerRefuses ==
    /\ net'.spc = "accept" /\ net'.sres = "AuthFailed"
    /\ net'.s2c = net.s2c
    /\ lists'.server = lists.server

\* C30: every message after the handshake is accepted by its receiver only if
\* it is at least 8 bytes long and its first 8 bytes equal the session id;
\* otherwise the receiver fails with the authentication error and neither
\* merges nor replaces its replica.
C30_OnlyMessagesOfSession ==
    [][/\ lastOp'.op \in {"client_list", "client_ok"} =>
             \A f \in Incoming(net.s2c, net.csid) :
                 (NotOfSession(f, net.csid) /\ (ClientRecvList(f) \/ ClientRecvOk(f)))
                     => ClientRefuses
       /\ lastOp'.op \in {"server_cmd", "server_list"} =>
             \A f \in Incoming(net.c2s, net.ssid), saved \in BOOLEAN :
                 (NotOfSession(f, net.ssid)
                      /\ (ServerRecvCmd(f) \/ ServerRecvList(f, saved)))
                     => ServerRefuses]_vars

\* client_sync has just refused the frame it read in place of the server's
\* list, after a handshake that succeeded, and the client holds an item.
C30_Witness ==
    /\ lastOp.op = "client_list"
    /\ net.cpc = "idle" /\ net.cres = "AuthFailed"
    /\ lists.client.todos.items # <<>>


\* ------------------------------------------------------------------------
\* Claims about the end of an exchange
\* ------------------------------------------------------------------------
\* The frame is the confirmation of the connection: its session id and "ok".
OkFrame(f) ==
    /\ ~read_decrypted(f).panic /\ read_decrypted(f).ok
    /\ SameBytes(read_decrypted(f).msg, <<net.ssid, Text("ok")>>)

\* The server puts the confirmation on the stream in this step.
SendsOk == net'.s2c # net.s2c /\ net'.s2c # <<>> /\ OkFrame(net'.s2c[1])

\* The frame decrypts to a message of the session that deserializes to a
\* TdList.
ListOfSession(f) ==
    /\ ~read_check_decrypted(f, net.ssid).panic
    /\ read_check_decrypted(f, net.ssid).err = ""
    /\ IsTdListJson(read_check_decrypted(f, net.ssid).msg)

\* C31: in every exchange the server sends session_id + "ok" only after it
\* has replaced its replica with the deserialized replica received from the
\* client and persisted it; if deserialization or persisting fails, no "ok"
\* is sent.
C31_OkOnlyAfterStore ==
    [][/\ SendsOk =>
             \E f \in Incoming(net.c2s, net.ssid) :
                 /\ ServerRecvList(f, TRUE)
                 /\ ListOfSession(f)
                 /\ lists'.server =
                        new_from_json(read_check_decrypted(f, net.ssid).msg[1].val)
       /\ lastOp'.op = "server_list" =>
             \A f \in Incoming(net.c2s, net.ssid), saved \in BOOLEAN :
                 (ServerRecvList(f, saved) /\ (~ListOfSession(f) \/ ~saved))
                     => ~SendsOk]_vars

\* handle_stream has just replaced the server's list by a list with an item
\* and failed to write it to the save location.
C31_Witness ==
    /\ lastOp.op = "server_list"
    /\ net.spc = "accept" /\ net.sres = "IoErr" /\ net.stored
    /\ lists.server.todos.items # <<>>


\* ------------------------------------------------------------------------
\* Claims about recorded messages
\* ------------------------------------------------------------------------
\* The recorded frame carries a message of another exchange: it decrypts to a
\* message whose first 8 bytes are a session id other than the one of the
\* connection.
OfOtherExchange(f, sid) ==
    /\ f \in net.tape
    /\ ~read_decrypted(f).panic /\ read_decrypted(f).ok
    /\ Len(read_decrypted(f).msg) >= 1
    /\ ~SamePart(read_decrypted(f).msg[1], sid)

\* C32: a message that follows the handshake, recorded in one exchange and
\* delivered into a different exchange (which has a different session id), is
\* rejected by the receiver with the authentication error; it never makes the
\* server send its replica or replace its replica, and never makes a client
\* merge.
C32_ReplayRejected ==
    [][/\ lastOp'.op \in {"client_list", "client_ok"} =>
             \A f \in net.tape :
                 (OfOtherExchange(f, net.csid) /\ (ClientRecvList(f) \/ ClientRecvOk(f)))
                     => ClientRefuses
       /\ lastOp'.op \in {"server_cmd", "server_list"} =>
             \A f \in net.tape, saved \in BOOLEAN :
                 (OfOtherExchange(f, net.ssid)
                      /\ (ServerRecvCmd(f) \/ ServerRecvList(f, saved)))
                     => ServerRefuses]_vars

\* The server has just refused, in place of the command, a frame recorded in
\* an earlier exchange, and it holds an item.
C32_Witness ==
    /\ lastOp.op = "server_cmd"
    /\ net.nconn = 2
    /\ net.spc = "accept" /\ net.sres = "AuthFailed"
    /\ net.tape # {}
    /\ lists.server.todos.items # <<>>


\* ------------------------------------------------------------------------
\* Claims about the listening loop
\* ------------------------------------------------------------------------
\* The server's list after the exchanges of the log, run one after the other
\* from the server's first list: each is the sync of the list the client held
\* with the server's list, sent to the server as JSON.
RECURSIVE Serial(_, _)
Serial(log, n) ==
    IF n = 0 THEN new_server
    ELSE new_from_json(to_json(
             SentBack(TdListSync(log[n], Serial(log, n - 1), today))))

\* C33: the server handles connections strictly one at a time: with several
\* clients connecting concurrently, no message of a second connection is
\* processed before the handler of the first connection has returned, and the
\* resulting server replica equals the result of running the exchanges in some
\* serial order.
C33_OneConnectionAtATime ==
    /\ \A j, k \in Clients :
           (Multi.spc[j] # "none" /\ Multi.spc[k] # "none") => j = k
    /\ lists.server = Serial(Multi.log, Len(Multi.log))

\* The server has just stored the synced list of one client, with a todo,
\* while the connection of another client that holds a todo was queued.
C33_Witness ==
    /\ lastOp.op = "multi_server_list"
    /\ Len(Multi.log) = 1
    /\ Len(lists.server.todos.items) = 1
    /\ Multi.queue # <<>>
    /\ Multi.list[Head(Multi.queue)].todos.items # <<>>


\* The peer of the connection has stopped while handle_stream waits for its
\* next message.
Stalled(k) ==
    /\ Multi.spc[k] \in {"hello", "cmd", "list"}
    /\ Multi.cres[k] = "Stopped" /\ Multi.c2s[k] = <<>>

\* The handler of a connection whose peer stopped has failed.
FailedOnStalled(k) ==
    Multi.spc[k] = "none" /\ Multi.sres[k] = "Err" /\ Multi.cres[k] = "Stopped"

\* The client has just connected, after the handler of a stalled connection
\* failed.
ConnectedAfterwards(j) ==
    /\ lastOp.op = "multi_connect"
    /\ Multi.queue # <<>> /\ Multi.queue[Len(Multi.queue)] = j
    /\ \E k \in Clients : k # j /\ FailedOnStalled(k)

\* The connection of the client was served to completion, unless the client
\* itself stopped.
Served(j) ==
    /\ Multi.cpc[j] = "idle" /\ Multi.spc[j] = "none"
    /\ \/ Multi.cres[j] = "Stopped"
       \/ Multi.cres[j] = "Ok" /\ Multi.sres[j] = "Ok"

\* C34: if a connected peer stops sending at any step of the protocol, the
\* server's handler for that connection eventually fails (read timeout), and
\* a connection made afterwards by a well-behaved client is eventually served
\* to completion.
C34_StalledPeerTimesOut ==
    /\ \A k \in Clients : Stalled(k) ~> FailedOnStalled(k)
    /\ \A j \in Clients : ConnectedAfterwards(j) ~> Served(j)

\* The handler of a stalled connection has failed and the exchange of a
\* client that connected later is complete: the server holds its todo.
C34_Witness ==
    /\ \E k, j \in Clients :
          /\ k # j
          /\ FailedOnStalled(k)
          /\ Multi.cres[j] = "Ok" /\ Multi.sres[j] = "Ok"
          /\ Multi.queue = <<>>
    /\ lists.server.todos.items # <<>>


\* Before the sync: the client held the item Changed and the server held no
\* item with its sync_id (never synced, or deleted on the server).
ChangedUnknownToServer(k, sid) ==
    HeldAs(A0, k, sid, {"Changed"}) /\ ~Held(B0, k, sid)

\* C35, as stated: a client item with marker Changed whose sync_id is absent
\* from the server is present on both replicas after the sync, with the
\* client's field values.
C35_Original ==
    SyncDone =>
        \A k \in Kinds, sid \in Sids :
            ChangedUnknownToServer(k, sid) =>
                InBothAs(k, sid, ItemOf(A0, k, sid))

\* C35, amended: a client item with marker Changed whose sync_id is absent
\* from the server, and which is not a Todo completed before the day of the
\* sync, is present on both replicas after the sync, with the client's field
\* values.
C35_ChangedIsAdded ==
    SyncDone =>
        \A k \in Kinds, sid \in Sids :
            (ChangedUnknownToServer(k, sid) /\ ~Old(A0, k, sid, pre[1].today)) =>
                InBothAs(k, sid, ItemOf(A0, k, sid))

\* The server had deleted an item that the client edited afterwards, and the
\* sync gave it back to the server.
C35_Witness ==
    /\ SyncDone
    /\ \E k \in Kinds, sid \in Sids :
          /\ ChangedUnknownToServer(k, sid)
          /\ Len(lists.server[k].items) = Len(B0[k].items) + 1
          /\ InBothAs(k, sid, ItemOf(A0, k, sid))


\* Before the sync: both sides had edited the item (both markers Changed) and
\* their field values differ.
EditedOnBothSides(k, sid) ==
    /\ HeldAs(A0, k, sid, {"Changed"}) /\ HeldAs(B0, k, sid, {"Changed"})
    /\ ~ItemEq(ItemOf(A0, k, sid), ItemOf(B0, k, sid))

\* C36, as stated: when both sides edited the same item (client Changed,
\* server Changed with different values), after the sync both replicas hold
\* the client's field values.
C36_Original ==
    SyncDone =>
        \A k \in Kinds, sid \in Sids :
            EditedOnBothSides(k, sid) => InBothAs(k, sid, ItemOf(A0, k, sid))

\* C36, amended: when both sides edited the same item (client Changed, server
\* Changed with different values) and the client's copy is not a Todo
\* completed before the day of the sync, after the sync both replicas hold
\* the client's field values.
C36_ClientWinsConflict ==
    SyncDone =>
        \A k \in Kinds, sid \in Sids :
            (EditedOnBothSides(k, sid) /\ ~Old(A0, k, sid, pre[1].today)) =>
                InBothAs(k, sid, ItemOf(A0, k, sid))

\* A conflict that the sync decided for the client: the server's copy was
\* overwritten in place.
C36_Witness ==
    /\ SyncDone
    /\ \E k \in Kinds, sid \in Sids :
          /\ EditedOnBothSides(k, sid)
          /\ Len(lists.server[k].items) = Len(B0[k].items)
          /\ InBothAs(k, sid, ItemOf(A0, k, sid))
          /\ ~ItemEq(ItemOf(lists.server, k, sid), ItemOf(B0, k, sid))


\* C37: an item removed on the client (marker Removed at the time of the
\* sync) is absent from both replicas after the sync, even when the server
\* edited it in the meantime.
C37_ClientRemovalWins ==
    SyncDone =>
        \A k \in Kinds, sid \in Sids :
            RemovedOnClient(k, sid) => InNeither(k, sid)

\* The client removed an item that the server had edited since the last sync,
\* and the sync deleted the server's edited copy.
C37_Witness ==
    /\ SyncDone
    /\ \E k \in Kinds, sid \in Sids :
          /\ RemovedOnClient(k, sid)
          /\ HeldAs(B0, k, sid, {"Changed"})
          /\ ~ItemEq(ItemOf(A0, k, sid), ItemOf(B0, k, sid))
          /\ ~Old(B0, k, sid, pre[1].today)
          /\ InNeither(k, sid)


\* The lists A.sync(B) and B.sync(A) leave, from the state before the sync.
ClientCalled == TdListSync(A0, B0, pre[1].today)
ServerCalled == TdListSync(B0, A0, pre[1].today)

\* C38: the result of a sync does not depend on which replica the method is
\* called on: A.sync(B) and B.sync(A) leave the same A and the same B.
C38_DirectionIndependent ==
    SyncDone =>
        /\ ClientCalled.self = ServerCalled.other
        /\ ClientCalled.other = ServerCalled.self
        /\ lists.client = ClientCalled.self
        /\ lists.server = ClientCalled.other

\* A sync that changed both replicas, each of which held an item the other
\* did not hold.
C38_Witness ==
    /\ SyncDone
    /\ lists.client # A0 /\ lists.server # B0
    /\ \E k \in Kinds, sid \in Sids : LiveHeld(A0, k, sid) /\ ~Held(B0, k, sid)
    /\ \E k \in Kinds, sid \in Sids : LiveHeld(B0, k, sid) /\ ~Held(A0, k, sid)
    /\ ClientCalled.self = ServerCalled.other
    /\ ClientCalled.other = ServerCalled.self


\* The last operation was a sync called right after a sync, on the same day;
\* pre[1] is the state the first sync left.
SyncAgainDone == lastOp.op = "sync_again" /\ pre # <<>>

\* C39: sync is idempotent for a fixed date: a second sync right after a
\* sync leaves both replicas exactly as they were.
C39_SyncIdempotent ==
    SyncAgainDone =>
        /\ lists = pre[1].lists
        /\ today = pre[1].today /\ pre[1].op.op = "sync"

\* A second sync of two replicas that hold two todos each, one of them added
\* after their first sync.
C39_Witness ==
    /\ SyncAgainDone
    /\ Len(lists.client.todos.items) = 2
    /\ Len(lists.server.todos.items) = 2
    /\ lists = pre[1].lists


\* C40: in every reachable state of a client-role or server-role replica, the
\* id an item returns (item.id()) is the id with which remove_todo /
\* remove_task and get_todo_mut / get_task_mut address that same item, also
\* on a server-role replica after remove_old_todos removed items.
C40_IdAddressesItem ==
    \A r \in Roles, k \in Kinds :
        \A i \in 1..Len(lists[r][k].items) :
            lists[r][k].items[i].state # "Removed" =>
                get_item_mut(lists[r][k], lists[r][k].items[i].id) = i

====
